---- MODULE Spec2Model ----
(***************************************************************************)
(* Lead-management backend: the lead import workflow                       *)
(* (POST /sales-rep/jobtread/customer) and the authentication gate         *)
(* (authMiddleware), modelled as state machines over the relational store, *)
(* the CRM and the identity provider.  Every await of a handler is a       *)
(* suspension point: one action performs the awaited call with one of its  *)
(* outcomes and then runs the handler's synchronous code up to its next    *)
(* await.                                                                  *)
(***************************************************************************)
EXTENDS Naturals, Sequences, FiniteSets

(* ------------------------------ bounds --------------------------------- *)

\* number of rows of the touch_points table
MaxTP == 2

(* --------------------------- value universes --------------------------- *)

\* JavaScript null / undefined / '' : every falsy string value
Null == ""

Falsy(x) == x = Null

\* the requests in flight (two, so that imports can interleave)
Reqs == {"r1", "r2"}

\* the uids with a sales_rep row: rep1 and rep2 are active, rep3 is not
SalesRepUids == {"rep1", "rep2", "rep3"}

\* the uids with an admin row: rep2 (a rep who is also an admin) and adm1
\* are active, adm2 is not
AdminUids == {"rep2", "adm1", "adm2"}

LeadIds == {"L1"}

\* lead ids a request body may carry: a lead of the table or an unknown one
BodyLeadIds == LeadIds \cup {"L9", Null}

TouchIds == 1..MaxTP

\* the outcomes of one CRM RPC call: the response carries the created id,
\* the response carries no id, or the client throws (non-2xx, transport)
CrmOutcomes == {"id", "noid", "throw"}

\* the outcomes of one database query
DbOutcomes == {"ok", "throw"}

VARIABLES
  ORGANIZATION_ID,  \* process.env.JOBTREAD_ORGANIZATION_ID
  sales_rep,        \* table sales_rep:    uid -> row
  leads,            \* table leads:        lead_id -> row
  touch_points,     \* table touch_points: touch id -> row
  admin,            \* table admin:        uid -> row
  accounts,         \* CRM: the customer accounts created, as [id, lead_id]
  req,              \* the import requests: request -> handler state
  auth,             \* the requests in authMiddleware: request -> its state
  jobsReq,          \* the request in the GET /jobs handler: its state
  ops,              \* the requests in the lead and sales-rep handlers
  identity,         \* the identity provider's users: uid -> record
  rpc               \* the call of the CRM RPC client in progress: its state

vars == <<ORGANIZATION_ID, sales_rep, leads, touch_points, admin, accounts, req, auth, jobsReq, ops, identity, rpc>>

(* ------------------------------ CRM ids -------------------------------- *)

\* The CRM returns a fresh opaque id for every entity it creates; the id of
\* the entity created for request r is named after r.
AccountId(r) == "acct_" \o r
ContactId(r) == "contact_" \o r
LocationId(r) == "loc_" \o r
JobId(r) == "job_" \o r

(* ------------------------- the relational store ------------------------ *)

\* A row of table leads, with the columns the handlers read or write.
LeadRow(name, email, phone, address, city, finance_need, owner) ==
  [ name |-> name, email |-> email, phone |-> phone,
    address |-> address, city |-> city, state |-> "CA", zipcode |-> "90001",
    finance_need |-> finance_need, channel |-> Null, budget |-> Null,
    project_interest |-> Null,
    status |-> "New", sales_rep |-> owner,
    integration_id |-> Null, integration_platform |-> Null,
    commission_rate |-> 0, follow_up_date |-> Null ]

\* the value of the handler's variable lead before a row is read
NoLead == [ LeadRow(Null, Null, Null, Null, Null, Null, Null) EXCEPT !.status = Null ]

\* The lead rows the table may hold initially, all owned by rep1: a row
\* without a name, and the rows with a name and every combination of
\* email or phone (or neither), address, city and finance_need.
InitialLeadRows ==
  { LeadRow(Null, "jane@x.com", Null, "1 Main St", "LA", "Yes", "rep1") }
  \cup
  { LeadRow("Jane Doe", ep[1], ep[2], a, c, f, "rep1") :
      ep \in { <<Null, Null>>, <<"jane@x.com", Null>>, <<Null, "555-0100">> },
      a \in {Null, "1 Main St"}, c \in {Null, "LA"}, f \in {Null, "Yes"} }

\* Table sales_rep: rep1 and rep2 are active, rep3 is deactivated; rep2 has
\* no commission rate and no grant key.
InitialSalesReps ==
  [ u \in SalesRepUids |->
      [ name |-> IF u = "rep2" THEN Null ELSE u,
        grant_key |-> IF u = "rep2" THEN Null ELSE "gk_" \o u,
        commission_rate |-> IF u = "rep1" THEN 10 ELSE 0,
        is_active |-> IF u = "rep3" THEN 0 ELSE 1 ] ]

\* Table admin.
InitialAdmins ==
  [ u \in AdminUids |-> [ is_active |-> IF u = "adm2" THEN 0 ELSE 1 ] ]

\* A row of table touch_points, written by rep1 (who owns the leads of the
\* initial table).
TouchPointRow(lead_id, created_at, is_active) ==
  [ lead_id |-> lead_id, created_at |-> created_at, is_active |-> is_active,
    uid |-> "rep1", commenter_type |-> "sales_rep",
    description |-> "called", system_note |-> Null ]

\* The touch_points tables the store may hold initially: touch point t is
\* the t-th one inserted (created_at = t) and is active or soft-deleted.
\* The table has no order of its own: a query returns its rows in any order
\* unless it asks for one.
InitialTouchPoints ==
  { [ t \in TouchIds |-> TouchPointRow("L1", t, active[t]) ] :
      active \in [TouchIds -> {0, 1}] }

\* "SELECT name, commission_rate FROM sales_rep WHERE uid = ? AND is_active = 1"
SelectActiveSalesRep(uid) ==
  { u \in DOMAIN sales_rep : u = uid /\ sales_rep[u].is_active = 1 }

\* SelectOwnedLead with the guard "AND status != 'Imported'" added.
SelectOwnedLead_NotImported(lead_id, uid) ==
  { l \in DOMAIN leads :
      l = lead_id /\ leads[l].sales_rep = uid /\ leads[l].status # "Imported" }

\* "SELECT * FROM leads WHERE lead_id = ? AND sales_rep = ?"
SelectOwnedLead(lead_id, uid) ==
  { l \in DOMAIN leads : l = lead_id /\ leads[l].sales_rep = uid }

\* UpdateLeadImported without the commission_rate column.
UpdateLeadImported_NoCommissionRate(lead_id, customerId, rate) ==
  [ l \in DOMAIN leads |->
      IF l = lead_id
      THEN [ leads[l] EXCEPT !.status = "Imported",
                             !.integration_id = customerId,
                             !.integration_platform = "JobTread" ]
      ELSE leads[l] ]

\* "UPDATE leads SET status = 'Imported', integration_id = ?,
\*  integration_platform = ?, commission_rate = ? WHERE lead_id = ?"
UpdateLeadImported(lead_id, customerId, rate) ==
  [ l \in DOMAIN leads |->
      IF l = lead_id
      THEN [ leads[l] EXCEPT !.status = "Imported",
                             !.integration_id = customerId,
                             !.integration_platform = "JobTread",
                             !.commission_rate = rate ]
      ELSE leads[l] ]

\* "... FROM touch_points WHERE lead_id = ? AND is_active = 1"
ActiveTouchPoints(lead_id) ==
  { t \in DOMAIN touch_points :
      touch_points[t].lead_id = lead_id /\ touch_points[t].is_active = 1 }

\* the sequences that list every element of S exactly once
Orderings(S) ==
  { s \in [1..Cardinality(S) -> S] : \A x \in S : \E i \in DOMAIN s : s[i] = x }

\* OrderByCreatedAt without the ORDER BY clause: the rows in any order.
OrderByCreatedAt_Unordered(ts) == Orderings(ts)

\* "ORDER BY created_at ASC": the orders the database may return the rows
\* ts in (rows with equal created_at come in any order)
OrderByCreatedAt(ts) ==
  { s \in Orderings(ts) :
      \A i, j \in DOMAIN s :
        i < j => touch_points[s[i]].created_at <= touch_points[s[j]].created_at }

(* ------------------ POST /sales-rep/jobtread/customer ------------------ *)

\* The state of one import request: its position (pc), what the request
\* context and body carry, the handler's local variables and the response
\* sent (status 0: none yet); and, as a record of what the request did, the
\* CRM calls it has made (log), the lead row as its UPDATE left it (written,
\* NoLead while it has written nothing) and the await whose exception
\* reached the outer catch (caught).
IdleRequest ==
  [ pc |-> "idle", uid |-> Null, grantKey |-> Null, lead_id |-> Null,
    salesRepCommissionRate |-> 0, lead |-> NoLead, customer |-> Null,
    contactId |-> Null, locationId |-> Null, jobId |-> Null,
    touchPointRows |-> <<>>, tp |-> 0,
    status |-> 0, error |-> Null, note |-> Null,
    log |-> <<>>, written |-> NoLead, caught |-> Null ]

\* One entry of a request's log: a CRM call and whether it returned normally
\* (with the id it was asked for, where it is asked for one), or the UPDATE
\* of the lead row once it is done; at is the created_at of the touch point
\* of a replayed comment.
Call(op, ok, at) == [ op |-> op, ok |-> ok, at |-> at ]

Logged(q, op, ok, at) == [ q EXCEPT !.log = Append(q.log, Call(op, ok, at)) ]

\* res.status(code).json({ error }); return
Respond(q, code, error) ==
  [ q EXCEPT !.pc = "done", !.status = code, !.error = error ]

\* the outer catch of the handler
CatchAll(q) == Respond([ q EXCEPT !.caught = q.pc ], 500, "Internal server error")

\* response?.<op>?.<created>?.id : the id when the response carries one
CreatedId(out, id) == IF out = "id" THEN id ELSE Null

\* the note of the 201 response that reports contact information
NoteWithContact ==
  "Customer created with contact information from lead and lead updated with integration details."

\* note: email || phone ? '...with contact information...' : '...separately.'
Note(lead) ==
  IF ~Falsy(lead.email) \/ ~Falsy(lead.phone)
  THEN NoteWithContact
  ELSE "Customer created and lead updated with integration details. Contact information can be added separately."

\* res.status(201).json({ message, data })
Respond201(q) == [ Respond(q, 201, Null) EXCEPT !.note = Note(q.lead) ]

\* [8] is entered only with a job id
ToChecklist(q) ==
  IF ~Falsy(q.jobId) THEN [ q EXCEPT !.pc = "copyTaskTemplate" ] ELSE Respond201(q)

\* ToJob without the check of locationId.
ToJob_Ungated(q) == [ q EXCEPT !.pc = "createJob" ]

\* [7] is entered only with a location id
ToJob(q) ==
  IF ~Falsy(q.locationId) THEN [ q EXCEPT !.pc = "createJob" ] ELSE ToChecklist(q)

\* finance_need || channel || budget || project_interest
HasIntake(lead) ==
  ~Falsy(lead.finance_need) \/ ~Falsy(lead.channel) \/ ~Falsy(lead.budget)
    \/ ~Falsy(lead.project_interest)

\* [6] is entered only if the lead carries intake information
ToIntake(q) ==
  IF HasIntake(q.lead) THEN [ q EXCEPT !.pc = "intakeComment" ] ELSE ToJob(q)

\* [5] the loop over touchPointRows: the next comment, or on to [6]
ToTouchPoint(q, i) ==
  IF i <= Len(q.touchPointRows)
  THEN [ q EXCEPT !.pc = "tpComment", !.tp = i ]
  ELSE ToIntake([ q EXCEPT !.tp = 0 ])

\* address && city
HasLocation(lead) == ~Falsy(lead.address) /\ ~Falsy(lead.city)

\* [4] is entered only if the lead has an address and a city; then the
\* touch points are queried
ToLocation(q) ==
  IF HasLocation(q.lead)
  THEN [ q EXCEPT !.pc = "createLocation" ]
  ELSE [ q EXCEPT !.pc = "qTouchPoints" ]

\* email || phone
HasContactInfo(lead) == ~Falsy(lead.email) \/ ~Falsy(lead.phone)

\* [3] is entered only if the lead has an email or a phone
ToContact(q) ==
  IF HasContactInfo(q.lead) THEN [ q EXCEPT !.pc = "createContact" ] ELSE ToLocation(q)

\* StartChecks with the grant key checked before the lead id.
StartChecks_GrantKeyFirst(q) ==
  IF Falsy(q.uid) THEN Respond(q, 401, "User not authenticated")
  ELSE IF Falsy(ORGANIZATION_ID)
    THEN Respond(q, 500, "JobTread organization ID not configured")
  ELSE IF Falsy(q.grantKey)
    THEN Respond(q, 400, "JobTread grant key not configured for this user")
  ELSE IF Falsy(q.lead_id) THEN Respond(q, 400, "Lead ID is required")
  ELSE [ q EXCEPT !.pc = "qSalesRep" ]

\* The synchronous checks at the head of the handler, in the order of the
\* code: uid, ORGANIZATION_ID, lead_id, grantKey; then the sales_rep query
\* is issued.
StartChecks(q) ==
  IF Falsy(q.uid) THEN Respond(q, 401, "User not authenticated")
  ELSE IF Falsy(ORGANIZATION_ID)
    THEN Respond(q, 500, "JobTread organization ID not configured")
  ELSE IF Falsy(q.lead_id) THEN Respond(q, 400, "Lead ID is required")
  ELSE IF Falsy(q.grantKey)
    THEN Respond(q, 400, "JobTread grant key not configured for this user")
  ELSE [ q EXCEPT !.pc = "qSalesRep" ]

\* The request arrives with the context the middlewares left (req.userRecord
\* uid, req.grantKey) and its body (lead_id); the handler runs its
\* synchronous checks and then awaits the sales_rep query.
ImportStart(r) ==
  /\ req[r].pc = "idle"
  /\ \E uid \in SalesRepUids \cup {Null}, grantKey \in {Null, "gk1"}, lead_id \in BodyLeadIds :
       req' = [ req EXCEPT ![r] =
         StartChecks([ req[r] EXCEPT !.uid = uid, !.grantKey = grantKey,
                                     !.lead_id = lead_id ]) ]
  /\ UNCHANGED <<ORGANIZATION_ID, sales_rep, leads, touch_points, admin, accounts, auth, jobsReq, ops, identity, rpc>>

\* salesRepRows[0].commission_rate || 0
CommissionRateOf(uid) == sales_rep[uid].commission_rate

\* await of the sales_rep query, then the lead query is issued
ImportSalesRepQuery(r) ==
  /\ req[r].pc = "qSalesRep"
  /\ \E db \in DbOutcomes :
       LET q == req[r]
       IN req' = [ req EXCEPT ![r] =
            IF db = "throw" THEN CatchAll(q)
            ELSE IF SelectActiveSalesRep(q.uid) = {}
              THEN Respond(q, 404, "Sales Rep not found or access denied")
            ELSE [ q EXCEPT !.pc = "qLead",
                            !.salesRepCommissionRate = CommissionRateOf(q.uid) ] ]
  /\ UNCHANGED <<ORGANIZATION_ID, sales_rep, leads, touch_points, admin, accounts, auth, jobsReq, ops, identity, rpc>>

\* await of the lead query, the name check, then createAccount is issued
ImportLeadQuery(r) ==
  /\ req[r].pc = "qLead"
  /\ \E db \in DbOutcomes :
       LET q == req[r]
           leadRows == SelectOwnedLead(q.lead_id, q.uid)
       IN req' = [ req EXCEPT ![r] =
            IF db = "throw" THEN CatchAll(q)
            ELSE IF leadRows = {}
              THEN Respond(q, 404, "Lead not found or access denied")
            ELSE LET lead == leads[CHOOSE l \in leadRows : TRUE]
                 IN IF Falsy(lead.name)
                    THEN Respond([ q EXCEPT !.lead = lead ], 400, "Lead must have a name")
                    ELSE [ q EXCEPT !.pc = "createAccount", !.lead = lead ] ]
  /\ UNCHANGED <<ORGANIZATION_ID, sales_rep, leads, touch_points, admin, accounts, auth, jobsReq, ops, identity, rpc>>

\* ToUpdate with the UPDATE left out of its place after createAccount: the
\* handler goes straight on to the contact step.
ToUpdate_Deferred(q) == ToContact(q)

\* with a customer id, [2] the UPDATE of the lead row is issued at once
ToUpdate(q) == [ q EXCEPT !.pc = "updateLead" ]

\* customerResponse?.createAccount?.createdAccount?.id
CreatedAccountId(out, r) == CreatedId(out, AccountId(r))

\* [1] await of createAccount: a throw goes to the outer catch, a response
\* without id ends the request with 500, an id lets the UPDATE be issued
ImportCreateAccount(r) ==
  /\ req[r].pc = "createAccount"
  /\ \E out \in CrmOutcomes :
       LET q == req[r]
           id == CreatedAccountId(out, r)
       IN /\ req' = [ req EXCEPT ![r] =
               IF out = "throw" THEN CatchAll(Logged(q, "createAccount", FALSE, 0))
               ELSE IF Falsy(id)
                 THEN Respond(Logged(q, "createAccount", FALSE, 0), 500,
                              "Failed to create customer account")
               ELSE ToUpdate([ Logged(q, "createAccount", TRUE, 0) EXCEPT
                                 !.customer = id ]) ]
          /\ accounts' = IF out = "id"
                         THEN accounts \cup {[ id |-> AccountId(r), lead_id |-> q.lead_id ]}
                         ELSE accounts
  /\ UNCHANGED <<ORGANIZATION_ID, sales_rep, leads, touch_points, admin, auth, jobsReq, ops, identity, rpc>>

\* [2] await of the UPDATE of the lead row, then on to [3]
ImportUpdateLead(r) ==
  /\ req[r].pc = "updateLead"
  /\ \E db \in DbOutcomes :
       LET q == req[r]
       IN IF db = "throw"
          THEN /\ req' = [ req EXCEPT ![r] = CatchAll(q) ]
               /\ UNCHANGED leads
          ELSE /\ leads' = UpdateLeadImported(q.lead_id, q.customer, q.salesRepCommissionRate)
               /\ req' = [ req EXCEPT ![r] =
                     ToContact([ Logged(q, "UPDATE leads", TRUE, 0) EXCEPT
                                   !.written = leads'[q.lead_id] ]) ]
  /\ UNCHANGED <<ORGANIZATION_ID, sales_rep, touch_points, admin, accounts, auth, jobsReq, ops, identity, rpc>>

\* CatchAndSkip without the try/catch: a throw of the call reaches the outer
\* catch of the handler.
CatchAndSkip_Rethrow(out, q, next) == IF out = "throw" THEN CatchAll(q) ELSE next

\* try { await jobtread(...) } catch (error) { console.error(...) } around a
\* best-effort call: when the call throws, the error is logged and the
\* handler goes on as next; q is the request at the call.
CatchAndSkip(out, q, next) == next

\* [3] await of createContact, then on to [4]
ImportCreateContact(r) ==
  /\ req[r].pc = "createContact"
  /\ \E out \in CrmOutcomes :
       LET q == Logged(req[r], "createContact", out = "id", 0)
       IN req' = [ req EXCEPT ![r] =
            CatchAndSkip(out, q,
              ToLocation([ q EXCEPT !.contactId = CreatedId(out, ContactId(r)) ])) ]
  /\ UNCHANGED <<ORGANIZATION_ID, sales_rep, leads, touch_points, admin, accounts, auth, jobsReq, ops, identity, rpc>>

\* [4] await of createLocation, then the touch points are queried
ImportCreateLocation(r) ==
  /\ req[r].pc = "createLocation"
  /\ \E out \in CrmOutcomes :
       LET q == Logged(req[r], "createLocation", out = "id", 0)
       IN req' = [ req EXCEPT ![r] =
            CatchAndSkip(out, q,
              [ q EXCEPT !.pc = "qTouchPoints",
                         !.locationId = CreatedId(out, LocationId(r)) ]) ]
  /\ UNCHANGED <<ORGANIZATION_ID, sales_rep, leads, touch_points, admin, accounts, auth, jobsReq, ops, identity, rpc>>

\* the columns the replay selects: description, system_note, created_at
ReplayRow(t) ==
  [ description |-> touch_points[t].description,
    system_note |-> touch_points[t].system_note,
    created_at |-> touch_points[t].created_at ]

\* await of the touch_points query (it sits in no try/catch of its own),
\* then [5] starts with the first row
ImportTouchPointQuery(r) ==
  /\ req[r].pc = "qTouchPoints"
  /\ \E db \in DbOutcomes :
       LET q == req[r]
       IN IF db = "throw"
          THEN req' = [ req EXCEPT ![r] = CatchAll(q) ]
          ELSE \E order \in OrderByCreatedAt(ActiveTouchPoints(q.lead_id)) :
                 req' = [ req EXCEPT ![r] =
                   ToTouchPoint([ q EXCEPT !.touchPointRows =
                                    [ i \in DOMAIN order |-> ReplayRow(order[i]) ] ], 1) ]
  /\ UNCHANGED <<ORGANIZATION_ID, sales_rep, leads, touch_points, admin, accounts, auth, jobsReq, ops, identity, rpc>>

\* [5] await of the createComment of touch point req[r].tp, then the next
\* row of the loop
ImportTouchPointComment(r) ==
  /\ req[r].pc = "tpComment"
  /\ \E out \in {"id", "throw"} :
       LET tp == req[r].touchPointRows[req[r].tp]
           q == Logged(req[r], "createComment", out = "id", tp.created_at)
       IN req' = [ req EXCEPT ![r] = CatchAndSkip(out, q, ToTouchPoint(q, q.tp + 1)) ]
  /\ UNCHANGED <<ORGANIZATION_ID, sales_rep, leads, touch_points, admin, accounts, auth, jobsReq, ops, identity, rpc>>

\* [6] await of the intake-summary createComment, then on to [7]
ImportIntakeComment(r) ==
  /\ req[r].pc = "intakeComment"
  /\ \E out \in {"id", "throw"} :
       LET q == Logged(req[r], "intakeComment", out = "id", 0)
       IN req' = [ req EXCEPT ![r] = CatchAndSkip(out, q, ToJob(q)) ]
  /\ UNCHANGED <<ORGANIZATION_ID, sales_rep, leads, touch_points, admin, accounts, auth, jobsReq, ops, identity, rpc>>

\* [7] await of createJob, then on to [8]
ImportCreateJob(r) ==
  /\ req[r].pc = "createJob"
  /\ \E out \in CrmOutcomes :
       LET q == Logged(req[r], "createJob", out = "id", 0)
       IN req' = [ req EXCEPT ![r] =
            CatchAndSkip(out, q, ToChecklist([ q EXCEPT !.jobId = CreatedId(out, JobId(r)) ])) ]
  /\ UNCHANGED <<ORGANIZATION_ID, sales_rep, leads, touch_points, admin, accounts, auth, jobsReq, ops, identity, rpc>>

\* [8] await of copyTaskTemplateToTarget, then the 201 response
ImportChecklist(r) ==
  /\ req[r].pc = "copyTaskTemplate"
  /\ \E out \in {"id", "throw"} :
       LET q == Logged(req[r], "copyTaskTemplateToTarget", out = "id", 0)
       IN req' = [ req EXCEPT ![r] = CatchAndSkip(out, q, Respond201(q)) ]
  /\ UNCHANGED <<ORGANIZATION_ID, sales_rep, leads, touch_points, admin, accounts, auth, jobsReq, ops, identity, rpc>>

Import(r) ==
  \/ ImportStart(r)
  \/ ImportSalesRepQuery(r)
  \/ ImportLeadQuery(r)
  \/ ImportCreateAccount(r)
  \/ ImportUpdateLead(r)
  \/ ImportCreateContact(r)
  \/ ImportCreateLocation(r)
  \/ ImportTouchPointQuery(r)
  \/ ImportTouchPointComment(r)
  \/ ImportIntakeComment(r)
  \/ ImportCreateJob(r)
  \/ ImportChecklist(r)

(* --------------------------- authMiddleware ---------------------------- *)

\* the requests passing through the auth gate
AuthReqs == {"a1", "a2"}

\* Strings the gate takes apart are sequences of characters.
BearerPrefix == <<"B", "e", "a", "r", "e", "r", " ">>

\* The credentials of the identity provider, as character sequences, and what
\* verifyIdToken decodes each to: a uid, a decoded token without uid ("anon"),
\* or nothing (an invalid token, for which verification throws).
Tokens == { <<"r", "1">>, <<"r", "2">>, <<"r", "3">>, <<"a", "1">>, <<"g", "o">>,
            <<"n", "o">>, <<"x">> }

DecodedUid(token) ==
  CASE token = <<"r", "1">> -> "rep1"
    [] token = <<"r", "2">> -> "rep2"
    [] token = <<"r", "3">> -> "rep3"
    [] token = <<"a", "1">> -> "adm1"
    [] token = <<"g", "o">> -> "gone"
    [] OTHER -> Null

ValidTokens == Tokens \ { <<"x">> }

\* the uids the identity provider has a user record for ("gone" was deleted)
IdentityUsers == {"rep1", "rep2", "rep3", "adm1"}

\* the users of the identity provider, with their email
InitialIdentity == [ u \in IdentityUsers |-> [ email |-> u \o "@x.com" ] ]

\* the Authorization headers a request may carry; <<>> is a missing or empty
\* header
Headers ==
  { <<>>, BearerPrefix, <<"B", "e", "a", "r", "e", "r">> }
  \cup Tokens \cup { BearerPrefix \o t : t \in Tokens }

\* authHeader.startsWith('Bearer ')
StartsWith(str, prefix) ==
  Len(str) >= Len(prefix) /\ SubSeq(str, 1, Len(prefix)) = prefix

\* authHeader.substring(7)
Substring(str, from) == SubSeq(str, from + 1, Len(str))

\* ExtractToken that takes the whole header as the token.
ExtractToken_WholeHeader(authHeader) == authHeader

\* authHeader.startsWith('Bearer ') ? authHeader.substring(7) : authHeader
ExtractToken(authHeader) ==
  IF StartsWith(authHeader, BearerPrefix) THEN Substring(authHeader, 7) ELSE authHeader

\* The state of one request in the gate: its position, the header, the
\* locals token and uid, what the gate attached to the request (userRecord,
\* userRole, grantKey), the response sent (status 0: none), how often next()
\* was called, and what each awaited call did (verified, fetched, queried);
\* then the router it is mounted under (mount), what the role gate of that
\* mount did (gate: "-" not reached, "next", "403", with gateError), and how
\* often a handler of the router was entered.
IdleAuth ==
  [ pc |-> "idle", authorization |-> <<>>, token |-> <<>>, uid |-> Null,
    userRecord |-> Null, salesRepResult |-> {}, userRole |-> <<>>, grantKey |-> Null,
    status |-> 0, error |-> Null, nextCalls |-> 0,
    verified |-> "-", fetched |-> "-", queried |-> <<>>,
    mount |-> Null, gate |-> "-", gateError |-> Null, handlerRuns |-> 0 ]

\* unauthorized(res, message); return
Unauthorized(q, message) ==
  [ q EXCEPT !.pc = "done", !.status = 401, !.error = message ]

\* The request arrives: the header is read and the token extracted, then
\* verifyIdToken is awaited.
AuthStart(a) ==
  /\ auth[a].pc = "idle"
  /\ \E authHeader \in Headers :
       LET q == [ auth[a] EXCEPT !.authorization = authHeader ]
           token == ExtractToken(authHeader)
       IN auth' = [ auth EXCEPT ![a] =
            IF authHeader = <<>> THEN Unauthorized(q, "No authorization header found.")
            ELSE IF token = <<>>
              THEN Unauthorized(q, "No token found in authorization header.")
            ELSE [ q EXCEPT !.pc = "verifyIdToken", !.token = token ] ]
  /\ UNCHANGED <<ORGANIZATION_ID, sales_rep, leads, touch_points, admin, accounts, req, jobsReq, ops, identity, rpc>>

\* await of verifyIdToken(token): it throws for a token that is not valid
\* (and may throw for any token: expired, provider unreachable), else it
\* gives the decoded token; then the uid check, then getUser is awaited
AuthVerifyIdToken(a) ==
  /\ auth[a].pc = "verifyIdToken"
  /\ \E out \in {"decoded", "throw"} :
       /\ out = "decoded" => auth[a].token \in ValidTokens
       /\ LET q == [ auth[a] EXCEPT !.verified = out ]
              uid == DecodedUid(q.token)
          IN auth' = [ auth EXCEPT ![a] =
               IF out = "throw" THEN Unauthorized(q, "Unable to verify token")
               ELSE IF Falsy(uid) THEN Unauthorized(q, "Unable to get uid from token")
               ELSE [ q EXCEPT !.pc = "getUser", !.uid = uid ] ]
  /\ UNCHANGED <<ORGANIZATION_ID, sales_rep, leads, touch_points, admin, accounts, req, jobsReq, ops, identity, rpc>>

\* req.userRole = roles; next()
CallNext(q, roles) ==
  [ q EXCEPT !.pc = "done", !.userRole = roles, !.nextCalls = @ + 1 ]

\* CatchUnableToGetUser failing open: the error is swallowed and the request
\* goes on without roles.
CatchUnableToGetUser_FailOpen(q) == CallNext(q, <<>>)

\* catch (error) { unauthorized(res, `Unable to get user ${uid}`) }: the
\* catch around getUser and the role resolution
CatchUnableToGetUser(q) == Unauthorized(q, "Unable to get user")

\* await of getUser(uid): it throws for a uid without user record (and may
\* throw for any uid), may resolve to nothing, else gives the record; then
\* the sales_rep query is awaited
AuthGetUser(a) ==
  /\ auth[a].pc = "getUser"
  /\ \E out \in {"record", "nothing", "throw"} :
       /\ out = "record" => auth[a].uid \in IdentityUsers
       /\ LET q == [ auth[a] EXCEPT !.fetched = out ]
          IN auth' = [ auth EXCEPT ![a] =
               IF out = "throw" THEN CatchUnableToGetUser(q)
               ELSE IF out = "nothing" THEN Unauthorized(q, "Unauthorized")
               ELSE [ q EXCEPT !.pc = "qSalesRep", !.userRecord = q.uid ] ]
  /\ UNCHANGED <<ORGANIZATION_ID, sales_rep, leads, touch_points, admin, accounts, req, jobsReq, ops, identity, rpc>>

\* "SELECT * FROM admin WHERE uid = ? AND is_active = 1"
SelectActiveAdmin(uid) ==
  { u \in DOMAIN admin : u = uid /\ admin[u].is_active = 1 }

\* await of the sales_rep query; a database error is rethrown into the outer
\* catch; then the admin query is awaited
AuthSalesRepQuery(a) ==
  /\ auth[a].pc = "qSalesRep"
  /\ \E db \in DbOutcomes :
       LET q == [ auth[a] EXCEPT !.queried = Append(@, db) ]
       IN auth' = [ auth EXCEPT ![a] =
            IF db = "throw" THEN CatchUnableToGetUser(q)
            ELSE [ q EXCEPT !.pc = "qAdmin",
                            !.salesRepResult = SelectActiveSalesRep(q.uid) ] ]
  /\ UNCHANGED <<ORGANIZATION_ID, sales_rep, leads, touch_points, admin, accounts, req, jobsReq, ops, identity, rpc>>

\* Roles with the two pushes in the other order.
Roles_AdminFirst(agentRows, adminRows) ==
  (IF adminRows # {} THEN <<"admin">> ELSE <<>>)
    \o (IF agentRows # {} THEN <<"sales_rep">> ELSE <<>>)

\* roles: 'sales_rep' is pushed if agentRows is not empty, then 'admin' if
\* adminRows is not empty
Roles(agentRows, adminRows) ==
  (IF agentRows # {} THEN <<"sales_rep">> ELSE <<>>)
    \o (IF adminRows # {} THEN <<"admin">> ELSE <<>>)

\* await of the admin query; then the roles are built and next() is called
AuthAdminQuery(a) ==
  /\ auth[a].pc = "qAdmin"
  /\ \E db \in DbOutcomes :
       LET q == [ auth[a] EXCEPT !.queried = Append(@, db) ]
       IN auth' = [ auth EXCEPT ![a] =
            IF db = "throw" THEN CatchUnableToGetUser(q)
            ELSE CallNext(q, Roles(q.salesRepResult, SelectActiveAdmin(q.uid))) ]
  /\ UNCHANGED <<ORGANIZATION_ID, sales_rep, leads, touch_points, admin, accounts, req, jobsReq, ops, identity, rpc>>

AuthGate(a) ==
  \/ AuthStart(a)
  \/ AuthVerifyIdToken(a)
  \/ AuthGetUser(a)
  \/ AuthSalesRepQuery(a)
  \/ AuthAdminQuery(a)

(* ------------------------ adminAuth, salesAuth ------------------------- *)

\* router.use('/admin', ...), router.use('/sales-rep', ...)
Mounts == {"/admin", "/sales-rep"}

\* req.userRole?.includes(role)
Includes(userRole, role) == \E i \in 1..Len(userRole) : userRole[i] = role

\* forbidden(res, message)
Forbidden(q, message) == [ q EXCEPT !.gate = "403", !.gateError = message ]

\* next() of a role gate: the router behind it runs the handler
EnterRouter(q) == [ q EXCEPT !.gate = "next", !.handlerRuns = @ + 1 ]

salesAuth(q) ==
  IF Includes(q.userRole, "sales_rep") THEN EnterRouter(q)
  ELSE Forbidden(q, "Insufficient Permission. Please contact Admin.")

\* adminAuth testing for the role salesAuth tests for.
adminAuth_AsSalesAuth(q) == salesAuth(q)

adminAuth(q) ==
  IF Includes(q.userRole, "admin") THEN EnterRouter(q)
  ELSE Forbidden(q, "Insufficient Permission. Please contact Admin.")

\* router.use('/admin', auth, adminAuth, adminRouter) and
\* router.use('/sales-rep', auth, salesAuth, salesRepRouter): next() of the
\* auth gate runs the role gate of the mount the request came in under
RoleGate(a) ==
  /\ auth[a].pc = "done" /\ auth[a].nextCalls = 1 /\ auth[a].gate = "-"
  /\ \E mount \in Mounts :
       LET q == [ auth[a] EXCEPT !.mount = mount ]
       IN auth' = [ auth EXCEPT ![a] =
            IF mount = "/admin" THEN adminAuth(q) ELSE salesAuth(q) ]
  /\ UNCHANGED <<ORGANIZATION_ID, sales_rep, leads, touch_points, admin, accounts, req, jobsReq, ops, identity, rpc>>

(* ------------------------ GET /sales-rep/jobs -------------------------- *)

\* const JOBTREAD_BATCH_SIZE = 10
JOBTREAD_BATCH_SIZE == 10

\* the most imported leads the store of the jobs listing holds
MaxCustomers == 25

\* A row of table leads with the columns the jobs listing reads.  Here lead
\* ids, created_at and the CRM's account ids are numbers, lead i having been
\* created at time i and imported as account i.
JobsLeadRow(i, status, platform) ==
  [ sales_rep |-> "rep1", status |-> status, integration_platform |-> platform,
    integration_id |-> i, created_at |-> i ]

\* The leads of rep1: lead 0 is not imported, leads 1..n are; lead 1 was
\* imported into the platform given, the others into JobTread.
JobsStore(n, platform) ==
  [ i \in 0..n |->
      IF i = 0 THEN JobsLeadRow(0, "New", Null)
      ELSE JobsLeadRow(i, "Imported", IF i = 1 THEN platform ELSE "JobTread") ]

\* What the CRM holds: every fifth account has no job, the others one job;
\* a job with an even id has a contract with a price and an estimate with
\* neither price nor status, a job with an odd id has an estimate.  A null
\* name or price is <<>>, a null status is CrmNull.
CrmNull == "null"

CrmJobsOf(id) ==
  IF id % 5 = 0 THEN <<>> ELSE << [ id |-> 100 + id, name |-> <<"Job", id>> ] >>

CrmAccount(id) == [ id |-> id, name |-> <<"Customer", id>>, jobs |-> CrmJobsOf(id) ]

CrmDocumentsOf(jobId) ==
  IF jobId % 2 = 0
  THEN << [ fullName |-> "Contract", price |-> <<jobId>>, status |-> "approved" ],
          [ fullName |-> "Estimate", price |-> <<>>, status |-> CrmNull ] >>
  ELSE << [ fullName |-> "Estimate", price |-> <<jobId>>, status |-> "pending" ] >>

CrmJob(jobId) == [ id |-> jobId, documents |-> CrmDocumentsOf(jobId) ]

\* array.slice(from, to)
Slice(array, from, to) ==
  SubSeq(array, from + 1, IF to > Len(array) THEN Len(array) ELSE to)

\* Batches cutting the list every batchSize + 1 ids.
Batches_OneMore(ids, batchSize) ==
  [ b \in 1..((Len(ids) + batchSize) \div (batchSize + 1)) |->
      Slice(ids, (b - 1) * (batchSize + 1), b * (batchSize + 1)) ]

\* for (let i = 0; i < ids.length; i += batchSize)
\*   batches.push(ids.slice(i, i + batchSize))
RECURSIVE Batches(_, _)
Batches(ids, batchSize) ==
  IF ids = <<>> THEN <<>>
  ELSE << Slice(ids, 0, batchSize) >>
         \o Batches(Slice(ids, batchSize, Len(ids)), batchSize)

\* array.flatMap over an array of arrays
RECURSIVE Flatten(_)
Flatten(arrays) ==
  IF arrays = <<>> THEN <<>> ELSE Head(arrays) \o Flatten(Tail(arrays))

\* array.find(x => x.id === id): the first match in <<..>>, or <<>>
Find(array, id) ==
  LET I == { i \in 1..Len(array) : array[i].id = id }
  IN IF I = {} THEN <<>>
     ELSE << array[CHOOSE i \in I : \A j \in I : i <= j] >>

\* "SELECT * FROM leads WHERE sales_rep = ? AND status = 'Imported'
\*  ORDER BY created_at DESC"
ImportedLeadsOf(uid) ==
  { l \in DOMAIN leads : leads[l].sales_rep = uid /\ leads[l].status = "Imported" }

RECURSIVE SelectImportedLeads(_, _)
SelectImportedLeads(uid, below) ==
  LET S == { l \in ImportedLeadsOf(uid) : leads[l].created_at < below }
  IN IF S = {} THEN <<>>
     ELSE LET l == CHOOSE x \in S : \A y \in S : leads[y].created_at <= leads[x].created_at
          IN << leads[l] >> \o SelectImportedLeads(uid, leads[l].created_at)

\* customers.forEach: integration_name = null, jobs = [], estimates = [],
\* contracts = []
WithEmptyArrays(rows) ==
  [ i \in 1..Len(rows) |->
      [ integration_platform |-> rows[i].integration_platform,
        integration_id |-> rows[i].integration_id,
        integration_name |-> <<>>, jobs |-> <<>>, estimates |-> <<>>,
        contracts |-> <<>> ] ]

\* customers.filter(c => c.integration_platform === 'JobTread')
\*          .map(c => c.integration_id)
JobTreadCustomerIds(customers) ==
  LET jt == SelectSeq(customers, LAMBDA c : c.integration_platform = "JobTread")
  IN [ i \in 1..Len(jt) |-> jt[i].integration_id ]

\* customers.flatMap(customer => customer.jobs.map(job => job.id))
JobIdsOf(customers) ==
  Flatten([ i \in 1..Len(customers) |->
              [ j \in 1..Len(customers[i].jobs) |-> customers[i].jobs[j].id ] ])

\* The state of the request in the handler: its position, the locals of the
\* handler, k the batch the loop is at, the response sent (status 0: none),
\* and the CRM queries made so far with their batch and whether each
\* returned.
IdleJobs ==
  [ pc |-> "idle", uid |-> Null, grantKey |-> Null, customers |-> <<>>,
    batches |-> <<>>, k |-> 0, jobTreadJobs |-> <<>>, jobBatches |-> <<>>,
    allJobsWithDocuments |-> <<>>, status |-> 0, error |-> Null, log |-> <<>> ]

JobsRespond(q, code, error) ==
  [ q EXCEPT !.pc = "done", !.status = code, !.error = error ]

\* the CRM's answer to the accounts query of a batch: the customer accounts
\* with an id in the batch, "size": JOBTREAD_BATCH_SIZE of them at most
AccountNodes(batch) ==
  Slice([ i \in 1..Len(batch) |-> CrmAccount(batch[i]) ], 0, JOBTREAD_BATCH_SIZE)

\* the CRM's answer to the jobs query of a batch
JobNodes(batch) ==
  Slice([ i \in 1..Len(batch) |-> CrmJob(batch[i]) ], 0, JOBTREAD_BATCH_SIZE)

\* doc.price || 0
PriceOrZero(price) == IF price = <<>> THEN 0 ELSE price[1]

\* doc.status || ''
StatusOrEmpty(status) == IF status = CrmNull THEN "" ELSE status

\* { fullName, price: doc.price || 0, status: doc.status || '' }
DocumentEntry(doc) ==
  [ fullName |-> doc.fullName, price |-> PriceOrZero(doc.price),
    status |-> StatusOrEmpty(doc.status) ]

\* For the jobs of one customer: the entries of the documents, among those
\* fetched, whose fullName includes the word ("Contract" includes
\* 'contract', "Estimate" includes 'estimate', once in lower case).
DocumentsNamed(jobs, allJobsWithDocuments, word) ==
  Flatten([ j \in 1..Len(jobs) |->
    LET jobWithDocs == Find(allJobsWithDocuments, jobs[j].id)
    IN IF jobWithDocs = <<>> THEN <<>>
       ELSE LET docs == SelectSeq(jobWithDocs[1].documents,
                                  LAMBDA doc : doc.fullName = word)
            IN [ i \in 1..Len(docs) |-> DocumentEntry(docs[i]) ] ])

\* customers.forEach(customer => customer.jobs.forEach(...)): the contracts
\* and estimates of each customer are filled from the documents fetched
UpdateDocuments(q) ==
  [ q EXCEPT !.customers =
      [ i \in 1..Len(q.customers) |->
          [ q.customers[i] EXCEPT
              !.contracts = @ \o DocumentsNamed(q.customers[i].jobs,
                                               q.allJobsWithDocuments, "Contract"),
              !.estimates = @ \o DocumentsNamed(q.customers[i].jobs,
                                               q.allJobsWithDocuments, "Estimate") ] ] ]

\* res.status(200).json({ message, data: customers })
JobsRespond200(q) == JobsRespond(q, 200, Null)

\* if (jobIds.length > 0) { try { if (ORGANIZATION_ID) { ...batches... } } }
ToDocuments(q) ==
  LET jobIds == JobIdsOf(q.customers)
  IN IF Len(jobIds) > 0 /\ ~Falsy(ORGANIZATION_ID)
     THEN [ q EXCEPT !.pc = "documentBatch", !.k = 1,
                     !.jobBatches = Batches(jobIds, JOBTREAD_BATCH_SIZE) ]
     ELSE JobsRespond200(q)

\* if (jobTreadJobs.length > 0) customers.forEach(...): a JobTread customer
\* with an integration_id takes the name and the jobs of the first fetched
\* account of that id
MatchCustomers(q) ==
  IF Len(q.jobTreadJobs) > 0
  THEN [ q EXCEPT !.customers =
           [ i \in 1..Len(q.customers) |->
               LET customer == q.customers[i]
                   matching == Find(q.jobTreadJobs, customer.integration_id)
               IN IF /\ customer.integration_platform = "JobTread"
                     /\ customer.integration_id # 0
                     /\ matching # <<>>
                  THEN [ customer EXCEPT !.integration_name = matching[1].name,
                                         !.jobs = matching[1].jobs ]
                  ELSE customer ] ]
  ELSE q

\* what follows the account batches: the matching, then the documents
AfterAccounts(q) == ToDocuments(MatchCustomers(q))

\* if (jobTreadCustomerIds.length > 0) { try { if (!ORGANIZATION_ID)
\*   console.warn(...) else { ...batches... } } }
ToAccounts(q) ==
  LET jobTreadCustomerIds == JobTreadCustomerIds(q.customers)
  IN IF Len(jobTreadCustomerIds) > 0 /\ ~Falsy(ORGANIZATION_ID)
     THEN [ q EXCEPT !.pc = "accountBatch", !.k = 1,
                     !.batches = Batches(jobTreadCustomerIds, JOBTREAD_BATCH_SIZE) ]
     ELSE AfterAccounts(q)

\* The request arrives: the uid and grant key checks, then the leads query
\* is awaited.
JobsStart ==
  /\ jobsReq.pc = "idle"
  /\ \E uid \in {Null, "rep1"}, grantKey \in {Null, "gk_rep1"} :
       LET q == [ jobsReq EXCEPT !.uid = uid, !.grantKey = grantKey ]
       IN jobsReq' =
            IF Falsy(uid) THEN JobsRespond(q, 401, "User not authenticated")
            ELSE IF Falsy(grantKey)
              THEN JobsRespond(q, 400, "JobTread grant key not configured for this user")
            ELSE [ q EXCEPT !.pc = "qCustomers" ]
  /\ UNCHANGED <<ORGANIZATION_ID, sales_rep, leads, touch_points, admin, accounts, req, auth, ops, identity, rpc>>

\* await of the leads query; a database error reaches the outer catch
JobsCustomerQuery ==
  /\ jobsReq.pc = "qCustomers"
  /\ \E db \in DbOutcomes :
       jobsReq' =
         IF db = "throw" THEN JobsRespond(jobsReq, 500, "Internal server error")
         ELSE ToAccounts([ jobsReq EXCEPT !.customers =
                WithEmptyArrays(
                  SelectImportedLeads(jobsReq.uid, Cardinality(DOMAIN leads))) ])
  /\ UNCHANGED <<ORGANIZATION_ID, sales_rep, leads, touch_points, admin, accounts, req, auth, ops, identity, rpc>>

\* catch (error) { console.error('Error fetching JobTread jobs:', error) }
\* around the loop over the account batches
CatchAccounts(q) == AfterAccounts(q)

\* await of the accounts query of batch k
JobsAccountBatch ==
  /\ jobsReq.pc = "accountBatch"
  /\ \E out \in DbOutcomes :
       LET batch == jobsReq.batches[jobsReq.k]
           q == [ jobsReq EXCEPT !.log =
                    Append(@, [ query |-> "accounts", batch |-> batch, ok |-> out = "ok" ]) ]
           fetched == [ q EXCEPT !.jobTreadJobs = @ \o AccountNodes(batch) ]
       IN jobsReq' =
            IF out = "throw" THEN CatchAccounts(q)
            ELSE IF q.k = Len(q.batches) THEN AfterAccounts(fetched)
            ELSE [ fetched EXCEPT !.k = @ + 1 ]
  /\ UNCHANGED <<ORGANIZATION_ID, sales_rep, leads, touch_points, admin, accounts, req, auth, ops, identity, rpc>>

\* catch (error) { console.error('Error fetching job documents:', error) }
\* around the loop over the job batches and the update of the customers
CatchDocuments(q) == JobsRespond200(q)

\* await of the jobs query of batch k
JobsDocumentBatch ==
  /\ jobsReq.pc = "documentBatch"
  /\ \E out \in DbOutcomes :
       LET batch == jobsReq.jobBatches[jobsReq.k]
           q == [ jobsReq EXCEPT !.log =
                    Append(@, [ query |-> "jobs", batch |-> batch, ok |-> out = "ok" ]) ]
           fetched == [ q EXCEPT !.allJobsWithDocuments = @ \o JobNodes(batch) ]
       IN jobsReq' =
            IF out = "throw" THEN CatchDocuments(q)
            ELSE IF q.k = Len(q.jobBatches) THEN JobsRespond200(UpdateDocuments(fetched))
            ELSE [ fetched EXCEPT !.k = @ + 1 ]
  /\ UNCHANGED <<ORGANIZATION_ID, sales_rep, leads, touch_points, admin, accounts, req, auth, ops, identity, rpc>>

(* ------------------ lead and sales-rep handlers: state ------------------ *)

\* the requests in these handlers: the sales rep's touch-point creation and
\* lead edit, the admin's lead update, the admin's sales-rep update, and the
\* admin's touch-point creation
OpReqs == {"touchPoint", "edit", "adminLead", "rep", "adminTouch"}

\* The state of one such request: its position, the caller (uid, userRole),
\* the route parameter (param), the body fields the handler reads, the row
\* the handler has read (existing), the response sent (status 0: none), and
\* the writes it has made so far: to the database, the CRM or the identity
\* provider.
IdleOp ==
  [ pc |-> "idle", uid |-> Null, userRole |-> <<>>, param |-> Null,
    contact_method |-> Null, description |-> Null, bodyStatus |-> Null,
    follow_up_date |-> Null, name |-> Null, sales_rep |-> Null, email |-> Null,
    commission_rate |-> <<>>, existing |-> NoLead, systemNote |-> Null,
    statusUpdated |-> FALSE,
    status |-> 0, error |-> Null, effects |-> <<>> ]

OpRespond(q, code, error) == [ q EXCEPT !.pc = "done", !.status = code, !.error = error ]

\* catch (error) { res.status(500).json({ error: 'Internal server error' }) }
OpCatch(q) == OpRespond(q, 500, "Internal server error")

\* a write the request has made
Wrote(q, what) == [ q EXCEPT !.effects = Append(@, what) ]

\* "UPDATE leads SET column = ? WHERE lead_id = ?"
UpdateLeadColumn(lead_id, column, value) ==
  [ l \in DOMAIN leads |->
      IF l = lead_id THEN [ leads[l] EXCEPT ![column] = value ] ELSE leads[l] ]

(* ------------- POST /sales-rep/leads/:leadId/touch-points -------------- *)

\* const validContactMethods = ['Phone Call', 'Email', 'Text Message']
validContactMethods == {"Phone Call", "Email", "Text Message"}

\* the id and the creation time of the touch point the request inserts
NewTouchId == MaxTP + 1

\* twoDaysFromNow.toISOString().split('T')[0]
TwoDaysFromNow == "today+2"

\* The request arrives: the checks of the caller and of the body, then the
\* lead query is awaited.
TouchPointStart ==
  /\ ops["touchPoint"].pc = "idle"
  /\ \E uid \in {Null, "rep1"}, contact_method \in {Null, "Fax", "Phone Call"},
        status \in {Null, "Follow-up", "Closed"} :
       LET q == [ ops["touchPoint"] EXCEPT !.uid = uid, !.param = "L1",
                    !.contact_method = contact_method, !.description = "called",
                    !.bodyStatus = status ]
       IN ops' = [ ops EXCEPT !["touchPoint"] =
            IF Falsy(uid) THEN OpRespond(q, 401, "User not authenticated")
            ELSE IF Falsy(q.contact_method) \/ Falsy(q.description)
              THEN OpRespond(q, 400, "Contact method and description are required")
            ELSE IF q.contact_method \notin validContactMethods
              THEN OpRespond(q, 400,
                     "Contact method must be one of: Phone Call, Email, Text Message")
            ELSE [ q EXCEPT !.pc = "qLead" ] ]
  /\ UNCHANGED <<ORGANIZATION_ID, sales_rep, leads, touch_points, admin, accounts,
                 req, auth, jobsReq, identity, rpc>>

\* currentLead.status: the query selects lead_id only, so it is undefined
CurrentLeadStatus == Null

\* if (status && status !== currentLead.status)
StatusUpdateWanted(q) == ~Falsy(q.bodyStatus) /\ q.bodyStatus # CurrentLeadStatus

\* await of "SELECT lead_id FROM leads WHERE lead_id = ? AND sales_rep = ?";
\* then the status update, if one is wanted, or else the insert is awaited
TouchPointLeadQuery ==
  /\ ops["touchPoint"].pc = "qLead"
  /\ \E db \in DbOutcomes :
       LET q == ops["touchPoint"]
       IN ops' = [ ops EXCEPT !["touchPoint"] =
            IF db = "throw" THEN OpCatch(q)
            ELSE IF SelectOwnedLead(q.param, q.uid) = {}
              THEN OpRespond(q, 404, "Lead not found or access denied")
            ELSE IF StatusUpdateWanted(q)
              THEN [ q EXCEPT !.pc = "updateStatus", !.statusUpdated = TRUE ]
            ELSE [ q EXCEPT !.pc = "insert" ] ]
  /\ UNCHANGED <<ORGANIZATION_ID, sales_rep, leads, touch_points, admin, accounts,
                 req, auth, jobsReq, identity, rpc>>

\* await of "UPDATE leads SET status = ? WHERE lead_id = ?"
TouchPointUpdateStatus ==
  /\ ops["touchPoint"].pc = "updateStatus"
  /\ \E db \in DbOutcomes :
       LET q == ops["touchPoint"]
       IN IF db = "throw"
          THEN ops' = [ ops EXCEPT !["touchPoint"] = OpCatch(q) ] /\ UNCHANGED leads
          ELSE /\ leads' = UpdateLeadColumn(q.param, "status", q.bodyStatus)
               /\ ops' = [ ops EXCEPT !["touchPoint"] =
                    [ Wrote(q, "UPDATE leads") EXCEPT !.pc = "updateFollowUp" ] ]
  /\ UNCHANGED <<ORGANIZATION_ID, sales_rep, touch_points, admin, accounts,
                 req, auth, jobsReq, identity, rpc>>

\* await of "UPDATE leads SET follow_up_date = ? WHERE lead_id = ?" for the
\* status Follow-up (the date given or two days from now), and of
\* "UPDATE leads SET follow_up_date = NULL WHERE lead_id = ?" for another
TouchPointUpdateFollowUp ==
  /\ ops["touchPoint"].pc = "updateFollowUp"
  /\ \E db \in DbOutcomes :
       LET q == ops["touchPoint"]
           finalFollowUpDate ==
             IF q.bodyStatus # "Follow-up" THEN Null
             ELSE IF Falsy(q.follow_up_date) THEN TwoDaysFromNow
             ELSE q.follow_up_date
           systemNote ==
             IF q.bodyStatus = "Follow-up" THEN "Follow-up on " \o finalFollowUpDate \o "."
             ELSE "Change status to " \o q.bodyStatus \o "."
       IN IF db = "throw"
          THEN ops' = [ ops EXCEPT !["touchPoint"] = OpCatch(q) ] /\ UNCHANGED leads
          ELSE /\ leads' = UpdateLeadColumn(q.param, "follow_up_date", finalFollowUpDate)
               /\ ops' = [ ops EXCEPT !["touchPoint"] =
                    [ Wrote(q, "UPDATE leads") EXCEPT !.pc = "insert",
                                                     !.systemNote = systemNote ] ]
  /\ UNCHANGED <<ORGANIZATION_ID, sales_rep, touch_points, admin, accounts,
                 req, auth, jobsReq, identity, rpc>>

\* InsertTouchPoint that replaces the latest row of the lead instead.
InsertTouchPoint_Replace(q) ==
  [ t \in DOMAIN touch_points |->
      IF t = MaxTP
      THEN [ TouchPointRow(q.param, MaxTP, 1) EXCEPT
               !.uid = q.uid, !.commenter_type = "sales_rep",
               !.description = q.description, !.system_note = q.systemNote ]
      ELSE touch_points[t] ]

\* "INSERT INTO touch_points (touch_id, uid, lead_id, contact_method,
\*  description, system_note, commenter_type) VALUES (...)"
InsertTouchPoint(q) ==
  [ t \in DOMAIN touch_points \cup {NewTouchId} |->
      IF t = NewTouchId
      THEN [ TouchPointRow(q.param, NewTouchId, 1) EXCEPT
               !.uid = q.uid, !.commenter_type = "sales_rep",
               !.description = q.description, !.system_note = q.systemNote ]
      ELSE touch_points[t] ]

\* await of the insert, then 201
TouchPointInsert ==
  /\ ops["touchPoint"].pc = "insert"
  /\ \E db \in DbOutcomes :
       LET q == ops["touchPoint"]
       IN IF db = "throw"
          THEN ops' = [ ops EXCEPT !["touchPoint"] = OpCatch(q) ]
               /\ UNCHANGED touch_points
          ELSE /\ touch_points' = InsertTouchPoint(q)
               /\ ops' = [ ops EXCEPT !["touchPoint"] =
                    OpRespond(Wrote(q, "INSERT touch_points"), 201, Null) ]
  /\ UNCHANGED <<ORGANIZATION_ID, sales_rep, leads, admin, accounts,
                 req, auth, jobsReq, identity, rpc>>

TouchPointCreate ==
  \/ TouchPointStart
  \/ TouchPointLeadQuery
  \/ TouchPointUpdateStatus
  \/ TouchPointUpdateFollowUp
  \/ TouchPointInsert

(* -------------------- PUT /sales-rep/leads/:leadId --------------------- *)

\* The request arrives: the check of the caller, then the lead query is
\* awaited.
EditStart ==
  /\ ops["edit"].pc = "idle"
  /\ \E uid \in {Null, "rep1"}, name \in {Null, "Jane Roe"} :
       LET q == [ ops["edit"] EXCEPT !.uid = uid, !.param = "L1", !.name = name ]
       IN ops' = [ ops EXCEPT !["edit"] =
            IF Falsy(uid) THEN OpRespond(q, 401, "User not authenticated")
            ELSE [ q EXCEPT !.pc = "qLead" ] ]
  /\ UNCHANGED <<ORGANIZATION_ID, sales_rep, leads, touch_points, admin, accounts,
                 req, auth, jobsReq, identity, rpc>>

\* await of "SELECT lead_id FROM leads WHERE lead_id = ? AND sales_rep = ?",
\* then the check of the name; then the update is awaited
EditLeadQuery ==
  /\ ops["edit"].pc = "qLead"
  /\ \E db \in DbOutcomes :
       LET q == ops["edit"]
       IN ops' = [ ops EXCEPT !["edit"] =
            IF db = "throw" THEN OpCatch(q)
            ELSE IF SelectOwnedLead(q.param, q.uid) = {}
              THEN OpRespond(q, 404, "Lead not found or access denied")
            ELSE IF Falsy(q.name) THEN OpRespond(q, 400, "Name is required")
            ELSE [ q EXCEPT !.pc = "update" ] ]
  /\ UNCHANGED <<ORGANIZATION_ID, sales_rep, leads, touch_points, admin, accounts,
                 req, auth, jobsReq, identity, rpc>>

\* await of "UPDATE leads SET name = ? WHERE lead_id = ? AND sales_rep = ?";
\* result.affectedRows is the number of rows the WHERE clause matches
EditUpdate ==
  /\ ops["edit"].pc = "update"
  /\ \E db \in DbOutcomes :
       LET q == ops["edit"]
           matched == SelectOwnedLead(q.param, q.uid)
       IN IF db = "throw"
          THEN ops' = [ ops EXCEPT !["edit"] = OpCatch(q) ] /\ UNCHANGED leads
          ELSE IF matched = {}
          THEN /\ ops' = [ ops EXCEPT !["edit"] =
                    OpRespond(q, 404, "Lead not found or no changes made") ]
               /\ UNCHANGED leads
          ELSE /\ leads' = UpdateLeadColumn(q.param, "name", q.name)
               /\ ops' = [ ops EXCEPT !["edit"] =
                    [ Wrote(q, "UPDATE leads") EXCEPT !.pc = "select" ] ]
  /\ UNCHANGED <<ORGANIZATION_ID, sales_rep, touch_points, admin, accounts,
                 req, auth, jobsReq, identity, rpc>>

\* await of "SELECT * FROM leads WHERE lead_id = ?", then 200
EditSelect ==
  /\ ops["edit"].pc = "select"
  /\ \E db \in DbOutcomes :
       ops' = [ ops EXCEPT !["edit"] =
         IF db = "throw" THEN OpCatch(@) ELSE OpRespond(@, 200, Null) ]
  /\ UNCHANGED <<ORGANIZATION_ID, sales_rep, leads, touch_points, admin, accounts,
                 req, auth, jobsReq, identity, rpc>>

SalesRepLeadEdit == EditStart \/ EditLeadQuery \/ EditUpdate \/ EditSelect

(* ------------------------ PUT /admin/leads/:id ------------------------- *)

\* the requests an admin lead update may be: the caller's roles, the lead
\* id, and status and sales_rep of the body
AdminLeadInputs ==
  { << <<"sales_rep">>, "L1", Null, Null >>, << <<"admin">>, "L9", Null, Null >>,
    << <<"admin">>, "L1", Null, Null >>, << <<"admin">>, "L1", "Closed", Null >>,
    << <<"admin">>, "L1", Null, "rep2" >> }

\* The request arrives: the check of the role, then the lead query is
\* awaited.
AdminLeadStart ==
  /\ ops["adminLead"].pc = "idle"
  /\ \E in \in AdminLeadInputs :
       LET userRole == in[1]
           q == [ ops["adminLead"] EXCEPT !.userRole = userRole, !.param = in[2],
                    !.bodyStatus = in[3], !.sales_rep = in[4] ]
       IN ops' = [ ops EXCEPT !["adminLead"] =
            IF ~Includes(userRole, "admin") THEN OpRespond(q, 403, "Admin access required")
            ELSE [ q EXCEPT !.pc = "qLead" ] ]
  /\ UNCHANGED <<ORGANIZATION_ID, sales_rep, leads, touch_points, admin, accounts,
                 req, auth, jobsReq, identity, rpc>>

\* await of "SELECT * FROM leads WHERE lead_id = ?"; then the update is
\* awaited
AdminLeadQuery ==
  /\ ops["adminLead"].pc = "qLead"
  /\ \E db \in DbOutcomes :
       LET q == ops["adminLead"]
       IN ops' = [ ops EXCEPT !["adminLead"] =
            IF db = "throw" THEN OpCatch(q)
            ELSE IF q.param \notin DOMAIN leads THEN OpRespond(q, 404, "Lead not found")
            ELSE [ q EXCEPT !.pc = "update", !.existing = leads[q.param] ] ]
  /\ UNCHANGED <<ORGANIZATION_ID, sales_rep, leads, touch_points, admin, accounts,
                 req, auth, jobsReq, identity, rpc>>

\* value || existingLead[0].column
OrExisting(value, existing) == IF Falsy(value) THEN existing ELSE value

\* "UPDATE leads SET name = ?, email = ?, phone = ?, project_interest = ?,
\*  budget = ?, ..., status = ?, sales_rep = ?, finance_need = ?,
\*  channel = ?, notes = ?, commission_rate = ? WHERE lead_id = ?" with each
\* value the body's or else the one of the row read before
UpdateLeadByAdmin(q) ==
  [ l \in DOMAIN leads |->
      IF l = q.param
      THEN [ leads[l] EXCEPT
               !.name = OrExisting(q.name, q.existing.name),
               !.email = q.existing.email,
               !.phone = q.existing.phone,
               !.project_interest = q.existing.project_interest,
               !.budget = q.existing.budget,
               !.status = OrExisting(q.bodyStatus, q.existing.status),
               !.sales_rep = OrExisting(q.sales_rep, q.existing.sales_rep),
               !.finance_need = q.existing.finance_need,
               !.channel = q.existing.channel,
               !.commission_rate = q.existing.commission_rate ]
      ELSE leads[l] ]

\* await of the update
AdminLeadUpdateRow ==
  /\ ops["adminLead"].pc = "update"
  /\ \E db \in DbOutcomes :
       LET q == ops["adminLead"]
       IN IF db = "throw"
          THEN ops' = [ ops EXCEPT !["adminLead"] = OpCatch(q) ] /\ UNCHANGED leads
          ELSE /\ leads' = UpdateLeadByAdmin(q)
               /\ ops' = [ ops EXCEPT !["adminLead"] =
                    [ Wrote(q, "UPDATE leads") EXCEPT !.pc = "select" ] ]
  /\ UNCHANGED <<ORGANIZATION_ID, sales_rep, touch_points, admin, accounts,
                 req, auth, jobsReq, identity, rpc>>

\* await of "SELECT * FROM leads WHERE lead_id = ?", then 200
AdminLeadSelect ==
  /\ ops["adminLead"].pc = "select"
  /\ \E db \in DbOutcomes :
       ops' = [ ops EXCEPT !["adminLead"] =
         IF db = "throw" THEN OpCatch(@) ELSE OpRespond(@, 200, Null) ]
  /\ UNCHANGED <<ORGANIZATION_ID, sales_rep, leads, touch_points, admin, accounts,
                 req, auth, jobsReq, identity, rpc>>

AdminLeadUpdate ==
  AdminLeadStart \/ AdminLeadQuery \/ AdminLeadUpdateRow \/ AdminLeadSelect

(* ---------------- POST /admin/leads/:leadId/touch-points --------------- *)

\* The request arrives: the checks of the role, the caller and the lead id,
\* then the lead query is awaited.
AdminTouchPointStart ==
  /\ ops["adminTouch"].pc = "idle"
  /\ \E userRole \in { <<"sales_rep">>, <<"admin">> }, uid \in {Null, "adm1"},
        leadId \in {Null, "L1", "L9"} :
       LET q == [ ops["adminTouch"] EXCEPT !.userRole = userRole, !.uid = uid,
                    !.param = leadId, !.contact_method = "Email",
                    !.description = "assigned", !.systemNote = "Automated Message" ]
       IN ops' = [ ops EXCEPT !["adminTouch"] =
            IF ~Includes(userRole, "admin") THEN OpRespond(q, 403, "Admin access required")
            ELSE IF Falsy(uid) THEN OpRespond(q, 401, "User not authenticated")
            ELSE IF Falsy(leadId) THEN OpRespond(q, 400, "Lead ID is required")
            ELSE [ q EXCEPT !.pc = "qLead" ] ]
  /\ UNCHANGED <<ORGANIZATION_ID, sales_rep, leads, touch_points, admin, accounts,
                 req, auth, jobsReq, identity, rpc>>

\* await of "SELECT lead_id FROM leads WHERE lead_id = ?"; then the insert
\* is awaited
AdminTouchPointLeadQuery ==
  /\ ops["adminTouch"].pc = "qLead"
  /\ \E db \in DbOutcomes :
       LET q == ops["adminTouch"]
       IN ops' = [ ops EXCEPT !["adminTouch"] =
            IF db = "throw" THEN OpCatch(q)
            ELSE IF q.param \notin DOMAIN leads THEN OpRespond(q, 404, "Lead not found")
            ELSE [ q EXCEPT !.pc = "insert" ] ]
  /\ UNCHANGED <<ORGANIZATION_ID, sales_rep, leads, touch_points, admin, accounts,
                 req, auth, jobsReq, identity, rpc>>

\* "INSERT INTO touch_points (...) VALUES (touchId, uid, leadId,
\*  contact_method, description, 'Automated Message', 'admin')"
InsertAdminTouchPoint(q) ==
  [ t \in DOMAIN touch_points \cup {NewTouchId + 1} |->
      IF t = NewTouchId + 1
      THEN [ TouchPointRow(q.param, NewTouchId + 1, 1) EXCEPT
               !.uid = q.uid, !.commenter_type = "admin",
               !.description = q.description, !.system_note = q.systemNote ]
      ELSE touch_points[t] ]

\* await of the insert, then 201
AdminTouchPointInsert ==
  /\ ops["adminTouch"].pc = "insert"
  /\ \E db \in DbOutcomes :
       LET q == ops["adminTouch"]
       IN IF db = "throw"
          THEN ops' = [ ops EXCEPT !["adminTouch"] = OpCatch(q) ]
               /\ UNCHANGED touch_points
          ELSE /\ touch_points' = InsertAdminTouchPoint(q)
               /\ ops' = [ ops EXCEPT !["adminTouch"] =
                    OpRespond(Wrote(q, "INSERT touch_points"), 201, Null) ]
  /\ UNCHANGED <<ORGANIZATION_ID, sales_rep, leads, admin, accounts,
                 req, auth, jobsReq, identity, rpc>>

AdminTouchPointCreate ==
  AdminTouchPointStart \/ AdminTouchPointLeadQuery \/ AdminTouchPointInsert

(* --------------------- PUT /admin/sales-reps/:uid ---------------------- *)

\* the requests an admin sales-rep update may be: the caller's roles, the
\* uid of the route, and email and commission_rate of the body (<<>>: not
\* provided)
AdminSalesRepInputs ==
  { << <<"sales_rep">>, "rep1", Null, <<20>> >>, << <<"admin">>, "rep9", Null, <<20>> >>,
    << <<"admin">>, "rep1", Null, <<>> >>, << <<"admin">>, "rep1", Null, <<20>> >>,
    << <<"admin">>, "rep1", "new@x.com", <<>> >>,
    << <<"admin">>, "rep1", "new@x.com", <<20>> >> }

\* The request arrives: the checks of the role and of the uid, then the
\* sales_rep query is awaited.
AdminSalesRepStart ==
  /\ ops["rep"].pc = "idle"
  /\ \E in \in AdminSalesRepInputs :
       LET q == [ ops["rep"] EXCEPT !.userRole = in[1], !.param = in[2],
                    !.email = in[3], !.commission_rate = in[4] ]
       IN ops' = [ ops EXCEPT !["rep"] =
            IF ~Includes(q.userRole, "admin") THEN OpRespond(q, 403, "Admin access required")
            ELSE IF Falsy(q.param) THEN OpRespond(q, 400, "Sales rep UID is required")
            ELSE [ q EXCEPT !.pc = "qSalesRep" ] ]
  /\ UNCHANGED <<ORGANIZATION_ID, sales_rep, leads, touch_points, admin, accounts,
                 req, auth, jobsReq, identity, rpc>>

\* if (updateFields.length === 0) 400, else the update is awaited
ToSalesRepUpdate(q) ==
  IF q.commission_rate = <<>> THEN OpRespond(q, 400, "No fields provided to update")
  ELSE [ q EXCEPT !.pc = "update" ]

\* currentSalesRep.email: table sales_rep has no email column, so it is
\* undefined
CurrentSalesRepEmail == Null

\* await of "SELECT * FROM sales_rep WHERE uid = ?"; then, for an email that
\* differs, updateUser is awaited
AdminSalesRepQuery ==
  /\ ops["rep"].pc = "qSalesRep"
  /\ \E db \in DbOutcomes :
       LET q == ops["rep"]
       IN ops' = [ ops EXCEPT !["rep"] =
            IF db = "throw" THEN OpCatch(q)
            ELSE IF q.param \notin DOMAIN sales_rep THEN OpRespond(q, 404, "Sales rep not found")
            ELSE IF ~Falsy(q.email) /\ q.email # CurrentSalesRepEmail
              THEN [ q EXCEPT !.pc = "updateUser" ]
            ELSE ToSalesRepUpdate(q) ]
  /\ UNCHANGED <<ORGANIZATION_ID, sales_rep, leads, touch_points, admin, accounts,
                 req, auth, jobsReq, identity, rpc>>

\* await of firebaseAdmin.auth().updateUser(uid, { email }) in its
\* try/catch: a throw is answered 400
AdminSalesRepUpdateUser ==
  /\ ops["rep"].pc = "updateUser"
  /\ \E out \in DbOutcomes :
       LET q == ops["rep"]
       IN IF out = "throw" \/ q.param \notin DOMAIN identity
          THEN /\ ops' = [ ops EXCEPT !["rep"] =
                    OpRespond(q, 400, "Failed to update email in Firebase") ]
               /\ UNCHANGED identity
          ELSE /\ identity' = [ identity EXCEPT ![q.param].email = q.email ]
               /\ ops' = [ ops EXCEPT !["rep"] = ToSalesRepUpdate(Wrote(q, "updateUser")) ]
  /\ UNCHANGED <<ORGANIZATION_ID, sales_rep, leads, touch_points, admin, accounts,
                 req, auth, jobsReq, rpc>>

\* await of "UPDATE sales_rep SET commission_rate = ? WHERE uid = ?";
\* result.affectedRows is the number of rows the WHERE clause matches
AdminSalesRepUpdateRow ==
  /\ ops["rep"].pc = "update"
  /\ \E db \in DbOutcomes :
       LET q == ops["rep"]
       IN IF db = "throw"
          THEN ops' = [ ops EXCEPT !["rep"] = OpCatch(q) ] /\ UNCHANGED sales_rep
          ELSE IF q.param \notin DOMAIN sales_rep
          THEN /\ ops' = [ ops EXCEPT !["rep"] =
                    OpRespond(q, 404, "Sales rep not found or no changes made") ]
               /\ UNCHANGED sales_rep
          ELSE /\ sales_rep' = [ sales_rep EXCEPT
                                   ![q.param].commission_rate = q.commission_rate[1] ]
               /\ ops' = [ ops EXCEPT !["rep"] =
                    [ Wrote(q, "UPDATE sales_rep") EXCEPT !.pc = "select" ] ]
  /\ UNCHANGED <<ORGANIZATION_ID, leads, touch_points, admin, accounts,
                 req, auth, jobsReq, identity, rpc>>

\* await of the sales_rep query for the response; then getUser is awaited
AdminSalesRepSelect ==
  /\ ops["rep"].pc = "select"
  /\ \E db \in DbOutcomes :
       ops' = [ ops EXCEPT !["rep"] =
         IF db = "throw" THEN OpCatch(@) ELSE [ @ EXCEPT !.pc = "getUser" ] ]
  /\ UNCHANGED <<ORGANIZATION_ID, sales_rep, leads, touch_points, admin, accounts,
                 req, auth, jobsReq, identity, rpc>>

\* await of getUser(uid) in its try/catch, then 200 with or without email
AdminSalesRepGetUser ==
  /\ ops["rep"].pc = "getUser"
  /\ \E out \in DbOutcomes :
       ops' = [ ops EXCEPT !["rep"] = OpRespond(@, 200, Null) ]
  /\ UNCHANGED <<ORGANIZATION_ID, sales_rep, leads, touch_points, admin, accounts,
                 req, auth, jobsReq, identity, rpc>>

AdminSalesRepUpdate ==
  \/ AdminSalesRepStart
  \/ AdminSalesRepQuery
  \/ AdminSalesRepUpdateUser
  \/ AdminSalesRepUpdateRow
  \/ AdminSalesRepSelect
  \/ AdminSalesRepGetUser

(* ------------------------- the lead listings --------------------------- *)

\* a != b of SQL, which is not true of a NULL
SqlNotEqual(a, b) == a # Null /\ a # b

\* SalesRepLeadsListing without the condition on the status.
SalesRepLeadsListing_AnyStatus(uid) ==
  { l \in DOMAIN leads : leads[l].sales_rep = uid }

\* GET /sales-rep/leads: "... FROM leads l ...
\*  WHERE l.sales_rep = ? AND l.status != 'Imported'"
SalesRepLeadsListing(uid) ==
  { l \in DOMAIN leads :
      leads[l].sales_rep = uid /\ SqlNotEqual(leads[l].status, "Imported") }

\* GET /admin/leads: "... FROM leads l ... WHERE l.status != 'Imported'"
AdminLeadsListing ==
  { l \in DOMAIN leads : SqlNotEqual(leads[l].status, "Imported") }

\* GET /admin/jobs: "SELECT * FROM leads WHERE status = 'Imported'"
AdminImportedLeads == { l \in DOMAIN leads : leads[l].status = "Imported" }

(* ------------------------- the CRM RPC client -------------------------- *)

\* process.env.CURRENT_ENVIRONMENT; <<>> when the variable is not set
Environments == { <<>>, <<"DEV">>, <<"STAGING">>, <<"PROD">> }

\* req.body.customer_type; <<>> when the body has no such field
CustomerTypes == { <<>>, <<"">>, <<"Residence">> }

\* what string concatenation makes of a value: String(undefined) = 'undefined'
ToString(v) == IF v = <<>> THEN "undefined" ELSE v[1]

\* a || b on strings
Or(a, b) == IF Falsy(a) THEN b ELSE a

\* [1] the createAccount query the import passes to the client
CreateAccountQuery(env, name, customer_type) ==
  [ op |-> "createAccount",
    name |-> (IF env = <<"DEV">> THEN "[TEST] " ELSE "") \o name \o " "
               \o ToString(customer_type),
    type |-> "customer" ]

\* [4] the createLocation query the import passes to the client; + binds
\* tighter than ||, so that the address is
\* (address + ", " + city) || ("" + ", " + state) || ("CA" + " " + zipcode) || ""
CreateLocationQuery(lead, customerId, contactId) ==
  [ op |-> "createLocation",
    accountId |-> customerId,
    contactId |-> Or(contactId, ""),
    name |-> lead.address,
    address |-> Or(lead.address \o ", " \o lead.city,
                   Or("" \o ", " \o lead.state,
                      Or("CA" \o " " \o lead.zipcode, ""))) ]

\* the lead rows the import reaches step [4] with: address and city are
\* present, state and zipcode may be null
LocatedLeads ==
  { [ LeadRow("Jane Doe", Null, Null, "1 Main St", "LA", Null, "rep1")
        EXCEPT !.state = s, !.zipcode = z ] :
      s \in {Null, "CA", "NV"}, z \in {Null, "90001"} }

\* The calls of the client the import makes at [1] and [4], each with the
\* handler's values its query is built from.
CrmCalls ==
  { [ env |-> e, customer_type |-> ct, lead |-> l, contactId |-> Null,
      query |-> CreateAccountQuery(e, l.name, ct) ] :
      e \in Environments, ct \in CustomerTypes, l \in LocatedLeads }
  \cup
  { [ env |-> <<>>, customer_type |-> <<>>, lead |-> l, contactId |-> c,
      query |-> CreateLocationQuery(l, "acct_1", c) ] :
      l \in LocatedLeads, c \in {Null, "contact_1"} }

\* the HTTP statuses the CRM may answer with, and their reason phrases
HttpStatuses == {200, 201, 204, 299, 300, 304, 400, 401, 404, 429, 500, 503}

StatusText(status) ==
  CASE status \in {200, 299} -> "OK"
    [] status = 201 -> "Created"
    [] status = 204 -> "No Content"
    [] status \in {300, 304} -> "Not Modified"
    [] status \in {400, 429} -> "Bad Request"
    [] status = 401 -> "Unauthorized"
    [] status = 404 -> "Not Found"
    [] OTHER -> "Internal Server Error"

\* the response bodies: a JSON document, text that is not JSON, nothing
ResponseBodies == { "{\"createAccount\":{}}", "Bad Gateway", "" }

\* JSON.parse of a body: the parsed document, or <<>> when it is not JSON
ParseJson(body) ==
  IF body = "{\"createAccount\":{}}" THEN <<[ createAccount |-> "{}" ]>> ELSE <<>>

\* Ok that also accepts the redirection statuses.
Ok_Below400(status) == status >= 200 /\ status <= 399

\* res.ok: the status is in the range 200-299
Ok(status) == status >= 200 /\ status <= 299

\* The state of one call of jobtread(query, grantKey): the call site with
\* the values its query was built from (call), its arguments, the
\* requests it has sent, the response received (status 0: none), and how it
\* ended: the value returned (<<v>>) or the message of the Error thrown.
IdleRpc ==
  [ pc |-> "idle", call |-> [ query |-> [ op |-> Null ] ],
    query |-> [ op |-> Null ], grantKey |-> Null, sent |-> <<>>,
    status |-> 0, statusText |-> Null, body |-> Null,
    returned |-> <<>>, thrown |-> <<>> ]

\* throw new Error(message)
Throw(q, message) == [ q EXCEPT !.pc = "done", !.thrown = message ]

\* jobtread(query, grantKey), up to the await of fetch: without a grant key
\* it throws; otherwise fetch posts { query: { $: { grantKey }, ...query } }
JobtreadCall ==
  /\ rpc.pc = "idle"
  /\ \E call \in CrmCalls, grantKey \in {Null, "gk_rep1"} :
       LET query == call.query
           q == [ rpc EXCEPT !.call = call, !.query = query, !.grantKey = grantKey ]
       IN
       rpc' = IF Falsy(grantKey)
              THEN Throw(q, <<"JobTread grant key not provided">>)
              ELSE [ q EXCEPT !.pc = "fetch",
                              !.sent = Append(q.sent, [ grantKey |-> grantKey,
                                                        query |-> query ]) ]
  /\ UNCHANGED <<ORGANIZATION_ID, sales_rep, leads, touch_points, admin, accounts, req, auth, jobsReq, ops, identity>>

\* fetch settles: it rejects (no response), or resolves with a response;
\* then if (!res.ok) the body is read as text, else as JSON
JobtreadFetch ==
  /\ rpc.pc = "fetch"
  /\ \/ rpc' = Throw(rpc, <<"request to https://api.jobtread.com/pave failed">>)
     \/ \E status \in HttpStatuses, body \in ResponseBodies :
          rpc' = [ rpc EXCEPT !.status = status, !.statusText = StatusText(status),
                              !.body = body,
                              !.pc = IF ~Ok(status) THEN "text" ELSE "json" ]
  /\ UNCHANGED <<ORGANIZATION_ID, sales_rep, leads, touch_points, admin, accounts, req, auth, jobsReq, ops, identity>>

\* res.text() settles and the error is thrown, or res.json() settles and
\* its value is returned (it rejects when the body is not JSON)
JobtreadBody ==
  /\ \/ /\ rpc.pc = "text"
        /\ rpc' = Throw(rpc, <<"JobTread API error: ", rpc.status, " ",
                              rpc.statusText, " - ", rpc.body>>)
     \/ /\ rpc.pc = "json"
        /\ rpc' = IF ParseJson(rpc.body) = <<>>
                  THEN Throw(rpc, <<"Unexpected end of JSON input">>)
                  ELSE [ rpc EXCEPT !.pc = "done", !.returned = ParseJson(rpc.body) ]
  /\ UNCHANGED <<ORGANIZATION_ID, sales_rep, leads, touch_points, admin, accounts, req, auth, jobsReq, ops, identity>>

\* export async function jobtread(query, grantKey)
jobtread == JobtreadCall \/ JobtreadFetch \/ JobtreadBody

(* --------------------------- specification ----------------------------- *)

Init ==
  /\ ORGANIZATION_ID \in {Null, "org1"}
  /\ sales_rep = InitialSalesReps
  /\ leads \in [LeadIds -> InitialLeadRows]
  /\ touch_points \in InitialTouchPoints
  /\ admin = InitialAdmins
  /\ accounts = {}
  /\ req = [ r \in Reqs |-> IdleRequest ]
  /\ auth = [ a \in AuthReqs |-> IdleAuth ]
  /\ jobsReq = IdleJobs
  /\ ops = [ o \in OpReqs |-> IdleOp ]
  /\ identity = InitialIdentity
  /\ rpc = IdleRpc

Next == \E r \in Reqs : Import(r)

Spec == Init /\ [][Next]_vars

\* The auth gate alone, over the initial store.
InitAuth ==
  /\ ORGANIZATION_ID = "org1"
  /\ sales_rep = InitialSalesReps
  /\ leads = [ l \in LeadIds |->
                LeadRow("Jane Doe", "jane@x.com", Null, "1 Main St", "LA", "Yes", "rep1") ]
  /\ touch_points = [ t \in TouchIds |-> TouchPointRow("L1", t, 1) ]
  /\ admin = InitialAdmins
  /\ accounts = {}
  /\ req = [ r \in Reqs |-> IdleRequest ]
  /\ auth = [ a \in AuthReqs |-> IdleAuth ]
  /\ jobsReq = IdleJobs
  /\ ops = [ o \in OpReqs |-> IdleOp ]
  /\ identity = InitialIdentity
  /\ rpc = IdleRpc

NextAuth == \E a \in AuthReqs : AuthGate(a)

SpecAuth == InitAuth /\ [][NextAuth]_vars

\* The auth gate followed by the role gates, as the routers are mounted.
NextMount == \E a \in AuthReqs : AuthGate(a) \/ RoleGate(a)

SpecMount == InitAuth /\ [][NextMount]_vars

\* The jobs listing of rep1 over a store of up to MaxCustomers imported
\* leads.
InitJobs ==
  /\ ORGANIZATION_ID \in {Null, "org1"}
  /\ sales_rep = InitialSalesReps
  /\ leads \in { JobsStore(n, platform) :
                   n \in 0..MaxCustomers, platform \in {"JobTread", "Other"} }
  /\ touch_points = [ t \in TouchIds |-> TouchPointRow("L1", t, 1) ]
  /\ admin = InitialAdmins
  /\ accounts = {}
  /\ req = [ r \in Reqs |-> IdleRequest ]
  /\ auth = [ a \in AuthReqs |-> IdleAuth ]
  /\ jobsReq = IdleJobs
  /\ ops = [ o \in OpReqs |-> IdleOp ]
  /\ identity = InitialIdentity
  /\ rpc = IdleRpc

NextJobs == JobsStart \/ JobsCustomerQuery \/ JobsAccountBatch \/ JobsDocumentBatch

SpecJobs == InitJobs /\ [][NextJobs]_vars

\* The handlers that write the status of a lead, each with one request, over
\* a store with the lead L1 of rep1: the import, the touch-point creation
\* and the admin's lead update.
InitLeads ==
  /\ ORGANIZATION_ID = "org1"
  /\ sales_rep = InitialSalesReps
  /\ leads = [ l \in LeadIds |->
                LeadRow("Jane Doe", "jane@x.com", Null, "1 Main St", "LA", "Yes", "rep1") ]
  /\ touch_points = [ t \in TouchIds |-> TouchPointRow("L1", t, IF t = 1 THEN 1 ELSE 0) ]
  /\ admin = InitialAdmins
  /\ accounts = {}
  /\ req = [ r \in Reqs |-> IdleRequest ]
  /\ auth = [ a \in AuthReqs |-> IdleAuth ]
  /\ jobsReq = IdleJobs
  /\ ops = [ o \in OpReqs |-> IdleOp ]
  /\ identity = InitialIdentity
  /\ rpc = IdleRpc

NextLeads == Import("r1") \/ TouchPointCreate \/ AdminLeadUpdate

SpecLeads == InitLeads /\ [][NextLeads]_vars

\* The handlers of the sales rep's touch-point creation and lead edit and of
\* the admin's sales-rep update, each with one request, over the same store.
NextUpdates == TouchPointCreate \/ SalesRepLeadEdit \/ AdminSalesRepUpdate

SpecUpdates == InitLeads /\ [][NextUpdates]_vars

\* The handlers of the routers that write the leads or the touch_points
\* table, each with one request, over a store with one lead, owned by rep1,
\* and its touch points.
NextTouch ==
  \/ TouchPointCreate
  \/ AdminTouchPointCreate
  \/ SalesRepLeadEdit
  \/ AdminLeadUpdate

\* the CRM RPC client alone
InitCrm ==
  /\ ORGANIZATION_ID = "org1"
  /\ sales_rep = InitialSalesReps
  /\ leads = [ l \in LeadIds |-> LeadRow("Jane Doe", Null, Null, "1 Main St", "LA", Null, "rep1") ]
  /\ touch_points = [ t \in TouchIds |-> TouchPointRow("L1", t, 1) ]
  /\ admin = InitialAdmins
  /\ accounts = {}
  /\ req = [ r \in Reqs |-> IdleRequest ]
  /\ auth = [ a \in AuthReqs |-> IdleAuth ]
  /\ jobsReq = IdleJobs
  /\ ops = [ o \in OpReqs |-> IdleOp ]
  /\ identity = InitialIdentity
  /\ rpc = IdleRpc

NextCrm == jobtread

SpecCrm == InitCrm /\ [][NextCrm]_vars

SpecTouch == InitCrm /\ [][NextTouch]_vars

(* ------------------------------ properties ----------------------------- *)

\* the positions in request r's log of its calls of op
Positions(r, op) == { i \in DOMAIN req[r].log : req[r].log[i].op = op }

\* request r has called op and the call returned normally (with its id)
Succeeded(r, op) == \E i \in Positions(r, op) : req[r].log[i].ok

\* request r has called op and the call failed
Failed(r, op) == \E i \in Positions(r, op) : ~req[r].log[i].ok

\* request r has ended with a response
Done(r) == req[r].pc = "done"

\* request r passed every precondition: it called createAccount
Attempted(r) == Positions(r, "createAccount") # {}

\* request r's UPDATE set its lead to status 'Imported'
WroteImported(r) == req[r].written.status = "Imported"

\* the CRM calls of the best-effort steps [3] to [8]
BestEffortOps ==
  { "createContact", "createLocation", "createComment", "intakeComment",
    "createJob", "copyTaskTemplateToTarget" }

\* C1 as stated: a finished import that called createAccount has set its
\* lead to 'Imported' iff createAccount returned an id; if it returned none
\* or threw, the response is 500, the request wrote nothing to the lead and
\* made no further CRM call.
C1_ImportedIffAccountCreated ==
  \A r \in Reqs : (Done(r) /\ Attempted(r)) =>
    /\ WroteImported(r) <=> Succeeded(r, "createAccount")
    /\ ~Succeeded(r, "createAccount") =>
         /\ req[r].status = 500
         /\ req[r].written = NoLead
         /\ Len(req[r].log) = 1

\* C1 amended: a finished import that called createAccount has set its lead
\* to 'Imported' iff createAccount returned an id and the UPDATE of the lead
\* row did not throw; in every case where it wrote nothing (createAccount
\* returned no id or threw, or the UPDATE threw) the response is 500 and no
\* further CRM call was made.
C1_ImportedIffAccountCreatedAndUpdated ==
  \A r \in Reqs : (Done(r) /\ Attempted(r)) =>
    /\ WroteImported(r) <=>
         (Succeeded(r, "createAccount") /\ req[r].caught # "updateLead")
    /\ ~WroteImported(r) =>
         /\ req[r].status = 500
         /\ req[r].written = NoLead
         /\ Len(req[r].log) = 1
    /\ WroteImported(r) =>
         /\ req[r].written.integration_id = req[r].customer
         /\ req[r].customer = AccountId(r)

\* C1 witness: one finished import whose createAccount returned no id or
\* threw (500, nothing written) and one that got an id and wrote 'Imported'.
C1_Witness ==
  \E r, r2 \in Reqs :
    /\ Done(r) /\ Failed(r, "createAccount")
    /\ req[r].status = 500 /\ req[r].written = NoLead
    /\ Done(r2) /\ Succeeded(r2, "createAccount") /\ WroteImported(r2)
    /\ leads[req[r2].lead_id].status = "Imported"

\* C2 as stated: a request that reads its lead as already 'Imported' issues
\* no createAccount call and does not overwrite the lead's integration_id.
C2_ImportedAtMostOnce ==
  \A r \in Reqs : req[r].lead.status = "Imported" =>
    /\ ~Attempted(r)
    /\ req[r].written = NoLead

\* C3: in a finished import whose createAccount returned an id and in which
\* no database call threw, whichever CRM calls of the best-effort steps
\* failed, the response is 201 and the lead row was written with status
\* 'Imported' and integration_id equal to the customer id.
C3_BestEffortFailuresSwallowed ==
  \A r \in Reqs :
    (Done(r) /\ Succeeded(r, "createAccount") /\ req[r].caught \notin {"updateLead", "qTouchPoints"}) =>
      /\ req[r].status = 201
      /\ req[r].written.status = "Imported"
      /\ req[r].written.integration_id = req[r].customer

\* C3 witness: a 201 import in which the contact, the location, a touch-point
\* comment and the intake-summary comment all failed, and whose lead row
\* holds 'Imported' and the customer id.
C3_Witness ==
  \E r \in Reqs :
    /\ Done(r) /\ req[r].status = 201
    /\ Failed(r, "createContact") /\ Failed(r, "createLocation")
    /\ Failed(r, "createComment") /\ Failed(r, "intakeComment")
    /\ leads[req[r].lead_id].status = "Imported"
    /\ leads[req[r].lead_id].integration_id = req[r].customer

\* C4: every CRM call of a best-effort step comes after the UPDATE of the
\* lead row, the UPDATE comes right after the createAccount call that
\* returned the id, and it writes status 'Imported', the customer id,
\* platform 'JobTread' and the commission rate read from the rep's row.
C4_UpdateBeforeBestEffort ==
  \A r \in Reqs :
    /\ \A i \in DOMAIN req[r].log :
         /\ req[r].log[i].op \in BestEffortOps =>
              (i > 2 /\ req[r].log[2].op = "UPDATE leads")
         /\ req[r].log[i].op = "UPDATE leads" =>
              (i = 2 /\ req[r].log[1] = Call("createAccount", TRUE, 0))
    /\ Positions(r, "UPDATE leads") # {} =>
         /\ req[r].written.status = "Imported"
         /\ req[r].written.integration_id = req[r].customer
         /\ ~Falsy(req[r].customer)
         /\ req[r].written.integration_platform = "JobTread"
         /\ req[r].written.commission_rate = req[r].salesRepCommissionRate
         /\ req[r].salesRepCommissionRate = sales_rep[req[r].uid].commission_rate
    /\ Positions(r, "UPDATE leads") = {} => req[r].written = NoLead

\* C4 witness: rep1 (commission rate 10) has made the first best-effort call
\* and the lead row already holds the import.
C4_Witness ==
  \E r \in Reqs :
    /\ Len(req[r].log) = 3 /\ req[r].log[3].op = "createContact"
    /\ leads[req[r].lead_id].status = "Imported"
    /\ leads[req[r].lead_id].commission_rate = 10

\* C5 as stated: no request that has written status 'Imported' ends with a
\* 500 response.
C5_No500AfterImported ==
  \A r \in Reqs : (Done(r) /\ WroteImported(r)) => req[r].status # 500

\* C6: nothing but ownership and the name stands between a request and the
\* creation of a customer, whatever other requests have done to the lead:
\* a request whose lead query is pending passes to createAccount whenever
\* the lead is owned by its caller and has a name, and a request at
\* createAccount can always have a new customer created.
C6_NoMutualExclusion ==
  \A r \in Reqs :
    /\ ( /\ req[r].pc = "qLead"
         /\ req[r].lead_id \in DOMAIN leads
         /\ leads[req[r].lead_id].sales_rep = req[r].uid
         /\ ~Falsy(leads[req[r].lead_id].name) )
       => ENABLED (ImportLeadQuery(r) /\ req'[r].pc = "createAccount")
    /\ req[r].pc = "createAccount"
       => ENABLED (ImportCreateAccount(r) /\ Cardinality(accounts') > Cardinality(accounts))

\* C6 witness: two requests for the same lead both read it before either
\* wrote 'Imported', and the CRM holds two customers for that one lead.
C6_Witness ==
  \E r, r2 \in Reqs :
    /\ r # r2 /\ req[r].lead_id = req[r2].lead_id
    /\ req[r].lead.status = "New" /\ req[r2].lead.status = "New"
    /\ WroteImported(r) /\ WroteImported(r2)
    /\ Cardinality({ a \in accounts : a.lead_id = req[r].lead_id }) = 2

\* the touch-point comment calls of request r, in the order made
Comments(r) == SelectSeq(req[r].log, LAMBDA e : e.op = "createComment")

\* C7: with N the number of active touch points the replay read, a request
\* makes at most N touch-point comment calls, the i-th for the i-th row in
\* ascending created_at order; after the call for row i < N, failed or not,
\* the call for row i+1 is made or pending; past the loop all N were made.
C7_TouchPointReplay ==
  \A r \in Reqs :
    LET cs == Comments(r)
        rows == req[r].touchPointRows
        N == Len(rows)
    IN /\ Len(cs) <= N
       /\ N <= Cardinality(ActiveTouchPoints(req[r].lead_id))
       /\ \A i \in DOMAIN cs : cs[i].at = rows[i].created_at
       /\ \A i, j \in DOMAIN cs : i < j => cs[i].at <= cs[j].at
       /\ \A i \in DOMAIN cs :
            i < N => (Len(cs) > i \/ (req[r].pc = "tpComment" /\ req[r].tp = i + 1))
       /\ req[r].pc \in {"intakeComment", "createJob", "copyTaskTemplate", "done"}
            => Len(cs) = N

\* C7 witness: a finished import replayed two touch points, oldest first,
\* and the comment for the first one failed.
C7_Witness ==
  \E r \in Reqs :
    /\ Done(r) /\ req[r].status = 201
    /\ Len(Comments(r)) = 2
    /\ ~Comments(r)[1].ok
    /\ Comments(r)[1].at < Comments(r)[2].at

\* C8: a contact call is made only for a lead with email or phone, a
\* location call only for a lead with address and city and after any contact
\* call, a create-job call only after a location call that returned an id,
\* and the checklist call only after a create-job call that returned an id.
C8_StepsGated ==
  \A r \in Reqs :
    LET log == req[r].log
    IN /\ Positions(r, "createContact") # {} => HasContactInfo(req[r].lead)
       /\ \A i \in Positions(r, "createLocation") :
            /\ HasLocation(req[r].lead)
            /\ \A j \in Positions(r, "createContact") : j < i
       /\ \A i \in Positions(r, "createJob") :
            \E j \in Positions(r, "createLocation") : j < i /\ log[j].ok
       /\ \A i \in Positions(r, "copyTaskTemplateToTarget") :
            \E j \in Positions(r, "createJob") : j < i /\ log[j].ok
       /\ ~Falsy(req[r].locationId) <=> Succeeded(r, "createLocation")
       /\ ~Falsy(req[r].jobId) <=> Succeeded(r, "createJob")

\* C8 witness: a finished import made the contact, location, create-job and
\* checklist calls, in this order.
C8_Witness ==
  \E r \in Reqs :
    /\ Done(r) /\ req[r].status = 201
    /\ \E i, j, k, l \in DOMAIN req[r].log :
         /\ i < j /\ j < k /\ k < l
         /\ req[r].log[i].op = "createContact"
         /\ req[r].log[j].op = "createLocation"
         /\ req[r].log[k].op = "createJob"
         /\ req[r].log[l].op = "copyTaskTemplateToTarget"

\* one precondition of the import: whether it fails for request r, and the
\* response of its failure
Check(fails, status, error) == [ fails |-> fails, status |-> status, error |-> error ]

NotAuthenticated(r) == Check(Falsy(req[r].uid), 401, "User not authenticated")

NoRepProfile(r) ==
  Check(SelectActiveSalesRep(req[r].uid) = {}, 404, "Sales Rep not found or access denied")

NoGrantKey(r) ==
  Check(Falsy(req[r].grantKey), 400, "JobTread grant key not configured for this user")

NoOrganization(r) ==
  Check(Falsy(ORGANIZATION_ID), 500, "JobTread organization ID not configured")

NoLeadId(r) == Check(Falsy(req[r].lead_id), 400, "Lead ID is required")

LeadNotOwned(r) ==
  Check(SelectOwnedLead(req[r].lead_id, req[r].uid) = {}, 404,
        "Lead not found or access denied")

NoName(r) ==
  Check(\E l \in SelectOwnedLead(req[r].lead_id, req[r].uid) : Falsy(leads[l].name),
        400, "Lead must have a name")

\* the response of the earliest failing check of a list (status 0: none fails)
FirstFailure(checks) ==
  LET failing == { i \in DOMAIN checks : checks[i].fails }
  IN IF failing = {} THEN [ status |-> 0, error |-> Null ]
     ELSE LET i == CHOOSE i \in failing : \A j \in failing : i <= j
          IN [ status |-> checks[i].status, error |-> checks[i].error ]

\* request r ended on a precondition: it has a response, called no
\* createAccount and no database query threw
EndedOnPrecondition(r) == Done(r) /\ ~Attempted(r) /\ Falsy(req[r].caught)

\* C9 as stated: the response of a request that ends on a precondition is
\* the failure of the earliest failing one in the order: authenticated with
\* resolvable rep profile, grant key, organization id, lead_id, lead exists
\* and is owned, lead has a name.
C9_OrderAsListed ==
  \A r \in Reqs : EndedOnPrecondition(r) =>
    [ status |-> req[r].status, error |-> req[r].error ] =
      FirstFailure(<< NotAuthenticated(r), NoRepProfile(r), NoGrantKey(r),
                      NoOrganization(r), NoLeadId(r), LeadNotOwned(r), NoName(r) >>)

\* C9 amended: the response of a request that ends on a precondition is the
\* failure of the earliest failing one in the order: authenticated caller
\* (uid), organization id configured, lead_id supplied, grant key present,
\* active rep profile, lead exists and is owned, lead has a name; and a
\* request calls createAccount only if none of them fails.
C9_OrderOfTheCode ==
  \A r \in Reqs :
    LET first == FirstFailure(<< NotAuthenticated(r), NoOrganization(r), NoLeadId(r),
                                 NoGrantKey(r), NoRepProfile(r), LeadNotOwned(r),
                                 NoName(r) >>)
    IN /\ EndedOnPrecondition(r) =>
            [ status |-> req[r].status, error |-> req[r].error ] = first
       /\ Attempted(r) => first.status = 0

\* C9 witness: a request without lead_id and without grant key, from a
\* caller whose rep profile is inactive, ended with 'Lead ID is required'.
C9_Witness ==
  \E r \in Reqs :
    /\ EndedOnPrecondition(r)
    /\ NoLeadId(r).fails /\ NoGrantKey(r).fails /\ NoRepProfile(r).fails
    /\ ~NotAuthenticated(r).fails /\ ~NoOrganization(r).fails
    /\ req[r].status = 400 /\ req[r].error = "Lead ID is required"

\* what a request of the gate needs to be let through
CredentialPresent(a) ==
  auth[a].authorization # <<>> /\ ExtractToken(auth[a].authorization) # <<>>

VerificationYieldsUid(a) ==
  auth[a].verified = "decoded" /\ ~Falsy(DecodedUid(ExtractToken(auth[a].authorization)))

UserRecordFound(a) == auth[a].fetched = "record"

BothRoleQueriesSucceeded(a) == auth[a].queried = <<"ok", "ok">>

\* C10: a request that has left the gate either had next() called exactly
\* once and no response sent, and then its credential was present,
\* verification yielded a uid, the user record was found and both role
\* queries succeeded; or it was sent 401, next() was never called and one of
\* these did not hold.  A request still in the gate has neither.
C10_FailClosed ==
  \A a \in AuthReqs :
    LET q == auth[a]
        pass == /\ CredentialPresent(a) /\ VerificationYieldsUid(a)
                /\ UserRecordFound(a) /\ BothRoleQueriesSucceeded(a)
    IN IF q.pc = "done"
       THEN \/ (q.nextCalls = 1 /\ q.status = 0 /\ pass)
            \/ (q.nextCalls = 0 /\ q.status = 401 /\ ~pass)
       ELSE q.nextCalls = 0 /\ q.status = 0

\* C10 witness: one request was rejected with 401 because the admin query
\* threw, another was let through.
C10_Witness ==
  \E a, a2 \in AuthReqs :
    /\ auth[a].pc = "done" /\ auth[a].queried = <<"ok", "throw">>
    /\ auth[a].status = 401 /\ auth[a].nextCalls = 0
    /\ auth[a2].pc = "done" /\ auth[a2].nextCalls = 1 /\ auth[a2].status = 0

\* a request the gate has let through
Passed(a) == auth[a].pc = "done" /\ auth[a].nextCalls = 1

\* C11: a request the gate has let through for a caller with an active
\* sales_rep row carries grantKey equal to that row's grant_key.
C11_GrantKeyAttached ==
  \A a \in AuthReqs :
    Passed(a) /\ SelectActiveSalesRep(auth[a].uid) # {}
      => auth[a].grantKey = sales_rep[auth[a].uid].grant_key

\* an active row of the table matches the uid
IsActiveIn(table, uid) == uid \in DOMAIN table /\ table[uid].is_active = 1

\* C12: a request the gate has let through carries the roles the two tables
\* determine: 'sales_rep' iff an active sales_rep row matches the uid,
\* 'admin' iff an active admin row does, 'sales_rep' before 'admin', and no
\* roles at all for a caller in neither table.
C12_RolesFromLookups ==
  \A a \in AuthReqs :
    Passed(a) =>
      LET rep == IsActiveIn(sales_rep, auth[a].uid)
          adm == IsActiveIn(admin, auth[a].uid)
      IN auth[a].userRole =
           IF rep /\ adm THEN <<"sales_rep", "admin">>
           ELSE IF rep THEN <<"sales_rep">>
           ELSE IF adm THEN <<"admin">>
           ELSE <<>>

\* C12 witness: the gate let through a caller in both tables with both
\* roles, and a caller in neither with none.
C12_Witness ==
  \E a, a2 \in AuthReqs :
    /\ Passed(a) /\ auth[a].userRole = <<"sales_rep", "admin">>
    /\ Passed(a2) /\ auth[a2].userRole = <<>> /\ auth[a2].uid = "rep3"

\* C13: a role gate lets a request into its router iff the roles hold the
\* role of the mount ('admin' under /admin, 'sales_rep' under /sales-rep);
\* otherwise it sends 403 with the fixed error and no handler runs.  No
\* handler runs for a request no role gate has let through.
C13_RoleGates ==
  \A a \in AuthReqs :
    LET q == auth[a]
        has == \/ q.mount = "/admin" /\ Includes(q.userRole, "admin")
               \/ q.mount = "/sales-rep" /\ Includes(q.userRole, "sales_rep")
    IN /\ q.gate = "next" => has /\ q.handlerRuns = 1 /\ q.gateError = Null
       /\ q.gate = "403" =>
            /\ ~has /\ q.handlerRuns = 0
            /\ q.gateError = "Insufficient Permission. Please contact Admin."
       /\ q.gate = "-" => q.handlerRuns = 0
       /\ q.handlerRuns > 0 => q.pc = "done" /\ q.nextCalls = 1 /\ has

\* C13 witness: adminAuth refused a principal with roles ['sales_rep'] and
\* let through one with roles ['sales_rep', 'admin'].
C13_Witness ==
  \E a, a2 \in AuthReqs :
    /\ auth[a].mount = "/admin" /\ auth[a].userRole = <<"sales_rep">>
    /\ auth[a].gate = "403" /\ auth[a].handlerRuns = 0
    /\ auth[a2].mount = "/admin" /\ auth[a2].userRole = <<"sales_rep", "admin">>
    /\ auth[a2].gate = "next" /\ auth[a2].handlerRuns = 1

\* C14: for every token t, a request whose header is t or 'Bearer ' followed
\* by t is not turned away for its header, and the credential the gate hands
\* to verifyIdToken is exactly t.
C14_BearerPrefixOptional ==
  \A a \in AuthReqs : \A t \in Tokens :
    auth[a].pc # "idle" /\ auth[a].authorization \in {t, BearerPrefix \o t}
      => /\ auth[a].token = t
         /\ auth[a].pc = "verifyIdToken" \/ auth[a].verified # "-"

\* C14 witness: the same token was verified once from a header with the
\* prefix and once from a header without it.
C14_Witness ==
  \E a, a2 \in AuthReqs : \E t \in Tokens :
    /\ auth[a].authorization = BearerPrefix \o t /\ auth[a].verified = "decoded"
    /\ auth[a].token = t
    /\ auth[a2].authorization = t /\ auth[a2].verified = "decoded"
    /\ auth[a2].token = t

\* the CRM queries of one kind the jobs listing has made, in order
JobsLog(query) == SelectSeq(jobsReq.log, LAMBDA c : c.query = query)

\* the batches of a list of queries
BatchesOf(calls) == [ i \in 1..Len(calls) |-> calls[i].batch ]

\* the listing has answered 200
JobsListed == jobsReq.pc = "done" /\ jobsReq.status = 200

\* no CRM query of the kind has failed
NoneFailed(query) == \A i \in 1..Len(JobsLog(query)) : JobsLog(query)[i].ok

\* the account queries partition the ids into batches of at most
\* JOBTREAD_BATCH_SIZE: ceil(n / size) queries, none empty or larger than
\* the size, which concatenated in order are the id list
PartitionedIntoBatches ==
  LET ids == JobTreadCustomerIds(jobsReq.customers)
      calls == JobsLog("accounts")
  IN /\ Len(calls) * JOBTREAD_BATCH_SIZE >= Len(ids)
     /\ (Len(calls) - 1) * JOBTREAD_BATCH_SIZE < Len(ids) \/ Len(calls) = 0
     /\ \A i \in 1..Len(calls) :
          Len(calls[i].batch) >= 1 /\ Len(calls[i].batch) <= JOBTREAD_BATCH_SIZE
     /\ Flatten(BatchesOf(calls)) = ids

\* C15 as stated: when the listing has answered and no account query
\* failed, the account queries partition the JobTread integration ids into
\* consecutive batches of 10.
C15_BatchesPartitionIds == JobsListed /\ NoneFailed("accounts") => PartitionedIntoBatches

\* C15: with the organization id configured, when the listing has answered
\* and no account query failed, the account queries partition the JobTread
\* integration ids into consecutive batches of 10; without the organization
\* id no account query is made.
C15_BatchesPartitionIdsIfConfigured ==
  /\ JobsListed /\ NoneFailed("accounts") /\ ~Falsy(ORGANIZATION_ID)
       => PartitionedIntoBatches
  /\ Falsy(ORGANIZATION_ID) => jobsReq.log = <<>>

\* C15 witness: 25 ids were queried in 3 batches of 10, 10 and 5.
C15_Witness ==
  /\ JobsListed /\ NoneFailed("accounts")
  /\ Len(JobTreadCustomerIds(jobsReq.customers)) = 25
  /\ Len(JobsLog("accounts")) = 3
  /\ Len(JobsLog("accounts")[1].batch) = 10
  /\ Len(JobsLog("accounts")[2].batch) = 10
  /\ Len(JobsLog("accounts")[3].batch) = 5

\* C16: with the organization id configured, a listing that has answered has
\* queried every batch of the ids, whether or not another batch failed, and
\* every customer of a batch that was returned carries the name and the jobs
\* of its account.
C16_FailingBatchAffectsOnlyItself ==
  JobsListed /\ ~Falsy(ORGANIZATION_ID) =>
    LET ids == JobTreadCustomerIds(jobsReq.customers)
        calls == JobsLog("accounts")
    IN /\ BatchesOf(calls) = Batches(ids, JOBTREAD_BATCH_SIZE)
       /\ \A i \in 1..Len(calls) : calls[i].ok =>
            \A c \in 1..Len(jobsReq.customers) :
              LET customer == jobsReq.customers[c]
              IN /\ customer.integration_platform = "JobTread"
                 /\ \E b \in 1..Len(calls[i].batch) :
                      calls[i].batch[b] = customer.integration_id
                 => /\ customer.integration_name = CrmAccount(customer.integration_id).name
                    /\ customer.jobs = CrmJobsOf(customer.integration_id)

\* C17: in a listing that has answered, every customer carries in contracts
\* and estimates the documents of its jobs that the document batches which
\* succeeded returned.
C17_FailingDocumentBatchAffectsOnlyItself ==
  JobsListed =>
    LET calls == SelectSeq(JobsLog("jobs"), LAMBDA c : c.ok)
        returned == Flatten([ i \in 1..Len(calls) |-> JobNodes(calls[i].batch) ])
    IN \A c \in 1..Len(jobsReq.customers) :
         LET customer == jobsReq.customers[c]
         IN /\ customer.contracts = DocumentsNamed(customer.jobs, returned, "Contract")
            /\ customer.estimates = DocumentsNamed(customer.jobs, returned, "Estimate")

\* C18: a lead whose status is 'Imported' is in no active-leads listing (its
\* rep's, the admin's) and is in the jobs selections; a lead whose status is
\* not 'Imported' is in the active-leads listings and in no jobs selection;
\* no lead is in a listing of a rep other than its own.
C18_ImportedPartitionsListings ==
  \A l \in DOMAIN leads :
    LET own == leads[l].sales_rep
    IN /\ IF leads[l].status = "Imported"
          THEN /\ l \notin SalesRepLeadsListing(own) /\ l \notin AdminLeadsListing
               /\ l \in ImportedLeadsOf(own) /\ l \in AdminImportedLeads
          ELSE /\ l \in SalesRepLeadsListing(own) /\ l \in AdminLeadsListing
               /\ l \notin ImportedLeadsOf(own) /\ l \notin AdminImportedLeads
       /\ \A u \in SalesRepUids \ {own} :
            l \notin SalesRepLeadsListing(u) /\ l \notin ImportedLeadsOf(u)

\* C18 witness: after a touch point with a status was created for it and it
\* was then imported, the lead is in the jobs selection of its rep and not
\* in the active-leads listing.
C18_Witness ==
  /\ ops["touchPoint"].status = 201 /\ ops["touchPoint"].bodyStatus = "Follow-up"
  /\ req["r1"].status = 201 /\ req["r1"].lead.status = "Follow-up"
  /\ leads["L1"].status = "Imported"
  /\ "L1" \in ImportedLeadsOf("rep1") /\ "L1" \notin SalesRepLeadsListing("rep1")

\* C19: no step changes the status of a lead that is 'Imported'.
C19_ImportIsOneWay ==
  [][ \A l \in DOMAIN leads :
        leads[l].status = "Imported" => leads'[l].status = "Imported" ]_vars

\* C20: a request answered 400, 401, 403 or 404 has made no write: none to
\* the database, none to the CRM, none to the identity provider.
C20_ErrorsWithoutSideEffects ==
  /\ \A o \in OpReqs :
       ops[o].status \in {400, 401, 403, 404} => ops[o].effects = <<>>
  /\ \A r \in Reqs :
       req[r].status \in {400, 401, 403, 404}
         => req[r].log = <<>> /\ req[r].written = NoLead

(* ------------------- C21: the note of the 201 response ----------------- *)

\* C21: the note of an import's 201 response says the customer was created
\* with contact information if and only if this import created a CRM
\* contact (the create-contact call returned a contact id).
C21_NoteIffContactCreated ==
  \A r \in Reqs :
    req[r].status = 201 =>
      (req[r].note = NoteWithContact <=> ~Falsy(req[r].contactId))

(* ----------------------- C22: the CRM RPC client ----------------------- *)

\* the client has ended by returning a value / by throwing an error
Returned == rpc.pc = "done" /\ rpc.returned # <<>>

Raised == rpc.pc = "done" /\ rpc.thrown # <<>>

SentCreateAccount == rpc.query.op = "createAccount" /\ Len(rpc.sent) = 1

SentCreateLocation == rpc.query.op = "createLocation" /\ Len(rpc.sent) = 1

\* C27: the name sent in the create-account call is the lead's name,
\* followed by a space and customer_type when one is supplied, and prefixed
\* by '[TEST] ' in every environment but production (none in production).
C27_DisplayName ==
  (SentCreateAccount /\ rpc.call.env # <<>> /\ rpc.call.customer_type # <<"">>) =>
    rpc.sent[1].query.name =
      (IF rpc.call.env # <<"PROD">> THEN "[TEST] " ELSE "")
        \o rpc.call.lead.name
        \o (IF rpc.call.customer_type = <<>>
            THEN ""
            ELSE " " \o rpc.call.customer_type[1])

\* str contains the strings of parts one after the other, in their order
RECURSIVE ContainsInOrder(_, _)
ContainsInOrder(str, parts) ==
  IF parts = <<>> THEN TRUE
  ELSE LET p == Head(parts) IN
       \E i \in 1..(Len(str) + 1) :
         /\ i + Len(p) - 1 <= Len(str)
         /\ SubSeq(str, i, i + Len(p) - 1) = p
         /\ ContainsInOrder(SubSeq(str, i + Len(p), Len(str)), Tail(parts))

\* C28: the create-location call passes the contact id obtained (if any)
\* and sends as address one string that contains the lead's address, city,
\* state and zipcode, those present, in that order.
C28_LocationAddress ==
  SentCreateLocation =>
    /\ rpc.sent[1].query.contactId = rpc.call.contactId
    /\ ContainsInOrder(rpc.sent[1].query.address,
          SelectSeq(<<rpc.call.lead.address, rpc.call.lead.city,
                      rpc.call.lead.state, rpc.call.lead.zipcode>>,
                    LAMBDA part : ~Falsy(part)))

(* -------------------- C29: the two role queries ------------------------ *)

\* the role query on table is awaited by request a: issued, not yet settled
InFlight(a, table) ==
  \/ table = "sales_rep" /\ auth[a].pc = "qSalesRep"
  \/ table = "admin" /\ auth[a].pc = "qAdmin"

\* C29: the two role queries of the gate are issued together: while none
\* of them has completed, one being in flight means both are (and so they
\* may complete in either order).
C29_RoleQueriesConcurrent ==
  \A a \in AuthReqs :
    (auth[a].queried = <<>> /\ (InFlight(a, "sales_rep") \/ InFlight(a, "admin"))) =>
      (InFlight(a, "sales_rep") /\ InFlight(a, "admin"))

(* ------------------- C23 - C26, C30: touch points ---------------------- *)

\* C23: every touch point references a lead of the table, and one written
\* by a sales rep has as uid the sales_rep of that lead.
C23_TouchPointsOfTheOwner ==
  \A t \in DOMAIN touch_points :
    /\ touch_points[t].lead_id \in DOMAIN leads
    /\ touch_points[t].commenter_type = "sales_rep" =>
         touch_points[t].uid = leads[touch_points[t].lead_id].sales_rep

\* C24: no step changes or removes a row of touch_points: every row of the
\* table is in the table after the step, with the same fields.
C24_TouchPointsImmutable ==
  [][ \A t \in DOMAIN touch_points :
        t \in DOMAIN touch_points' /\ touch_points'[t] = touch_points[t] ]_vars

\* both touch-point creations have inserted their row, the lead was edited by
\* its rep and updated by an admin, and the initial rows are as they were
C24_Witness ==
  /\ ops["touchPoint"].status = 201 /\ ops["adminTouch"].status = 201
  /\ ops["edit"].status = 200 /\ ops["adminLead"].status = 200
  /\ DOMAIN touch_points = TouchIds \cup {NewTouchId, NewTouchId + 1}
  /\ \A t \in TouchIds : touch_points[t] = TouchPointRow("L1", t, 1)

\* C25: a lead has a follow_up_date only while its status is 'Follow-up'.
C25_FollowUpDateOnlyInFollowUp ==
  \A l \in DOMAIN leads :
    ~Falsy(leads[l].follow_up_date) => leads[l].status = "Follow-up"

\* C26: when the sales rep's touch-point creation has read the lead, it goes
\* on to update the status if and only if the body carries a status that
\* differs from the status the lead has at that moment; and the touch point
\* it creates has a system_note, and reports status_updated, if and only if
\* it made that update.
C26_SystemNoteIffStatusChanged ==
  /\ [][ (ops["touchPoint"].pc = "qLead"
          /\ ops'["touchPoint"].pc \in {"updateStatus", "insert"}) =>
         (ops'["touchPoint"].pc = "updateStatus" <=>
            (~Falsy(ops["touchPoint"].bodyStatus)
             /\ ops["touchPoint"].bodyStatus # leads[ops["touchPoint"].param].status)) ]_vars
  /\ [](ops["touchPoint"].status = 201 =>
         /\ ops["touchPoint"].statusUpdated <=> ~Falsy(ops["touchPoint"].systemNote)
         /\ ops["touchPoint"].statusUpdated <=> ops["touchPoint"].effects # <<"INSERT touch_points">>
         /\ touch_points[NewTouchId].system_note = ops["touchPoint"].systemNote)

\* C30: a step of a sales rep's handler (the touch-point creation, the
\* import) that writes a row of leads writes a row whose sales_rep is, before
\* the step, the uid of the caller.
C30_SalesRepWritesOwnLeads ==
  [][ \A l \in DOMAIN leads :
        leads'[l] # leads[l] =>
          /\ ops'["touchPoint"] # ops["touchPoint"] =>
                leads[l].sales_rep = ops["touchPoint"].uid
          /\ req'["r1"] # req["r1"] => leads[l].sales_rep = req["r1"].uid ]_vars

====
